---- MODULE Spec2Model ----
(***************************************************************************)
(* Hyperagent streaming-llm backend: the task graph store                  *)
(* (task_graph/store.py), the agent runtime (agents/runtime.py,            *)
(* agents/base.py), the event log (log/query.py) and the controller gate   *)
(* (orchestrator/controller_runner.py, log/summarize.py).                  *)
(*                                                                         *)
(* `graph` is the document ("tasks" list) last written to the registry     *)
(* file tasks.graph.json; `graphTrunc` says that open("w") has truncated   *)
(* the file since and the next write has not happened yet, so the file is  *)
(* empty.  Each journal logs/<conversation>.jsonl is one entry of          *)
(* `journal`, each artifact summaries/<conversation>.md one entry of       *)
(* `summaries`; `disk` is what stable storage holds of the journals,       *)
(* `journalLock` the journals that a writer holds locked with a line       *)
(* partly written.  Every caller is a process with a program counter: a    *)
(* step is the code between two accesses of a shared file.  Spec runs the  *)
(* calls one at a time (a call is started or continued only while every    *)
(* other process is idle); ConcSpec interleaves the steps of the workers   *)
(* and the submitter, LogSpec those of the clients of the log.  DecideSpec *)
(* is one controller that calls decide, CrashSpec the clients of the log   *)
(* on a machine that may crash, SummarySpec the callers of                 *)
(* rolling_summary and persist_summary, StoreSpec a submitter that calls   *)
(* create_task and update_task with arguments of its choice.  RouteSpec    *)
(* runs tasks that name their conversation in different fields, SliceSpec  *)
(* concurrent build_context_slice calls, WorkCrashSpec the workers on a    *)
(* machine that may crash, FairSpec the workers under fair scheduling and  *)
(* HeartbeatSpec the callers of heartbeat_due.                             *)
(*                                                                         *)
(* Python's None is the empty tuple, a present value v is <<v>>; a dict is *)
(* a function from its keys, and a payload that is a str s is the record   *)
(* [str |-> s].  Task fields that the code stores and never reads          *)
(* (context, parent_id, dependency_ids) are left out.                      *)
(***************************************************************************)
EXTENDS Integers, Sequences, FiniteSets, TLC

MaxTasks == 2
MaxClock == 1
MaxRuns == 1
MaxUpdates == 1
MaxOps == 3
MaxSerialOps == 1
MaxWindow == 1
MaxRecent == 6
MaxBeat == 4
MaxSliceOps == 5

None == <<>>
Some(v) == <<v>>

Workers == {"w1", "w2"}
Submitters == {"s1"}
Clients == {"c1", "c2"}
Procs == Workers \cup Submitters \cup Clients
SerialProcs == Workers \cup Submitters \cup {"c1"}
ConcProcs == Workers \cup Submitters

agent_type == [w \in Workers |-> "coder"]

TaskTypes == {"coder", "search"}
TaskId(n) == "task-" \o ToString(n)
TaskIds == {TaskId(n) : n \in 1..MaxTasks}

VARIABLES graph, graphTrunc, journal, disk, journalLock, summaries, clock,
          nextTask, nextEvt, pc, loc, ret, runs, ops, last_heartbeat_at,
          claimCount, created, coreEvents, appended

vars == <<graph, graphTrunc, journal, disk, journalLock, summaries, clock,
          nextTask, nextEvt, pc, loc, ret, runs, ops, last_heartbeat_at,
          claimCount, created, coreEvents, appended>>

\* The files; the counters that bound the callers; the history variables:
\* how often poll_next_task returned each task id, the ids create_task
\* returned, the ids of the events the runtime and the controller appended.
logFiles == <<journal, disk, journalLock, appended>>
shared == <<graph, graphTrunc, logFiles, summaries>>
budget == <<runs, ops>>
ghosts == <<claimCount, created, coreEvents>>

InitLoc == [cand |-> None, buf |-> None, target |-> None, task |-> None,
            entry |-> None, patch |-> None, result |-> None, nupd |-> 0,
            calls |-> <<>>]

Returned(kind, val) == [kind |-> kind, val |-> val]

Init ==
    /\ graph = <<>>
    /\ graphTrunc = FALSE
    /\ journal = <<>>
    /\ disk = <<>>
    /\ journalLock = <<>>
    /\ appended = {}
    /\ summaries = <<>>
    /\ clock = 0
    /\ nextTask = 1
    /\ nextEvt = 1
    /\ pc = [p \in Procs |-> "idle"]
    /\ loc = [p \in Procs |-> InitLoc]
    /\ ret = [p \in Procs |-> Returned("none", None)]
    /\ runs = [w \in Workers |-> 0]
    /\ ops = 0
    /\ last_heartbeat_at = [w \in Workers |-> None]
    /\ claimCount = [t \in {} |-> 0]
    /\ created = {}
    /\ coreEvents = {}

----------------------------------------------------------------------------
(* task_graph/store.py *)

\* The wall clock counts ticks of 1/TicksPerSecond second and never runs
\* backwards; a reading advances it by one of the amounts in `ticks`.
TicksPerSecond == 2
MicrosPerSecond == 1000000
Now(ticks) == {t \in clock..MaxClock : (t - clock) \in ticks}

\* _now_iso: datetime.isoformat() of the instant, "+00:00" replaced by "Z".
\* isoformat leaves the fraction out when the microsecond is 0; `frac` is
\* None then.  The string is kept as its seconds and its fraction.
NowIso(t) ==
    LET micro == (t % TicksPerSecond) * (MicrosPerSecond \div TicksPerSecond)
    IN [sec |-> t \div TicksPerSecond,
        frac |-> IF micro = 0 THEN None ELSE Some(micro)]

\* _parse_timestamp: the instant of an ISO string, in microseconds.
ParseTimestamp(iso) ==
    iso.sec * MicrosPerSecond + (IF iso.frac = None THEN 0 ELSE iso.frac[1])

\* Python's < on two such strings: equal up to the seconds, then "." sorts
\* before "Z", and two fractions of six digits compare as numbers.
StrLess(a, b) ==
    \/ a.sec < b.sec
    \/ /\ a.sec = b.sec
       /\ \/ a.frac # None /\ b.frac = None
          \/ a.frac # None /\ b.frac # None /\ a.frac[1] < b.frac[1]

\* dict.get(key) of a dict, None when the key is absent.
Get(d, k) == IF k \in DOMAIN d THEN Some(d[k]) ELSE None

\* dict.pop(key, None): the dict without the key.
Pop(d, k) == [j \in DOMAIN d \ {k} |-> d[j]]

\* Python's truth value of dict.get(key) for a string (None and "" are
\* false) and for a flag (None and False are false).
TruthyStr(opt) == opt # None /\ opt[1] # ""
TruthyFlag(opt) == opt # None /\ opt[1]

\* A faulty lookup that settles for the first node when no node has the id.
FindTaskOrFirst(doc, task_id) ==
    LET hits == {i \in 1..Len(doc) : doc[i].id = task_id}
    IN IF hits = {} THEN (IF doc = <<>> THEN 0 ELSE 1)
       ELSE CHOOSE i \in hits : \A j \in hits : i <= j

\* The index of the first node with this id, 0 when there is none.
FindTask(doc, task_id) ==
    LET hits == {i \in 1..Len(doc) : doc[i].id = task_id}
    IN IF hits = {} THEN 0 ELSE CHOOSE i \in hits : \A j \in hits : i <= j

\* create_task, lines 40-57: the node built from the draft.
NewNode(draft, fresh, now) ==
    [id |-> IF "id" \in DOMAIN draft THEN draft.id ELSE fresh,
     type |-> draft.type,
     status |-> draft.status,
     owner |-> IF "owner" \in DOMAIN draft THEN draft.owner ELSE None,
     inputs |-> IF "inputs" \in DOMAIN draft THEN draft.inputs ELSE <<>>,
     outputs |-> IF "outputs" \in DOMAIN draft THEN draft.outputs ELSE <<>>,
     metadata |-> IF "metadata" \in DOMAIN draft THEN draft.metadata ELSE <<>>,
     priority |-> IF "priority" \in DOMAIN draft THEN draft.priority ELSE 0,
     attempt |-> IF "attempt" \in DOMAIN draft THEN draft.attempt ELSE 0,
     created_at |-> IF "created_at" \in DOMAIN draft THEN draft.created_at ELSE now,
     updated_at |-> now]

\* update_task, lines 66-67: node.update(patch); node["updated_at"] = now.
PatchNode(node, patch, now) ==
    [k \in DOMAIN node \cup DOMAIN patch \cup {"updated_at"} |->
        IF k = "updated_at" THEN now
        ELSE IF k \in DOMAIN patch THEN patch[k] ELSE node[k]]

\* list_active, lines 76-79.
ListActive(doc, statuses) ==
    IF statuses = {} THEN doc
    ELSE SelectSeq(doc, LAMBDA task : task.status \in statuses)

\* A call that ends by raising: the exception reaches the caller.
Raise(p, exc) ==
    /\ ret' = [ret EXCEPT ![p] = Returned("raised", exc)]
    /\ pc' = [pc EXCEPT ![p] = "returned"]
    /\ loc' = [loc EXCEPT ![p] = InitLoc]

\* The caller has the outcome of its call and goes on.
Continue(p) ==
    /\ pc[p] = "returned"
    /\ pc' = [pc EXCEPT ![p] = "idle"]
    /\ ret' = [ret EXCEPT ![p] = Returned("none", None)]
    /\ loc' = [loc EXCEPT ![p] = InitLoc]
    /\ UNCHANGED <<shared, clock, nextTask, nextEvt, budget,
                   last_heartbeat_at, ghosts>>

\* save_graph line 29: open("w") truncates the file before the lock is taken.
SaveTrunc(p, here, next) ==
    /\ pc[p] = here
    /\ graphTrunc' = TRUE
    /\ UNCHANGED graph
    /\ pc' = [pc EXCEPT ![p] = next]
    /\ UNCHANGED <<logFiles, summaries, clock, nextTask, nextEvt, loc, ret,
                   budget, last_heartbeat_at, ghosts>>

\* save_graph lines 30-35: the whole document is written under the
\* exclusive lock and replaces what the file held.
SavedDoc(old, doc) == doc

\* create_task lines 39-57 (load_graph, the node, the append); save_graph
\* follows.  json.load of a truncated file raises.
CreateLoad(p, draft, ticks) ==
    /\ p \in Submitters
    /\ pc[p] = "idle"
    /\ nextTask <= MaxTasks
    /\ IF graphTrunc
       THEN /\ Raise(p, "JSONDecodeError")
            /\ UNCHANGED <<clock, nextTask>>
       ELSE \E now \in Now(ticks) :
            LET node == NewNode(draft, TaskId(nextTask), NowIso(now))
            IN /\ clock' = now
               /\ nextTask' = nextTask + 1
               /\ loc' = [loc EXCEPT ![p].buf = Some(Append(graph, node)),
                                     ![p].target = Some(node)]
               /\ pc' = [pc EXCEPT ![p] = "create_trunc"]
               /\ UNCHANGED ret
    /\ UNCHANGED <<shared, nextEvt, budget, last_heartbeat_at, ghosts>>

CreateTrunc(p) == SaveTrunc(p, "create_trunc", "create_write")

\* create_task lines 58-59: save_graph's write, and the node is returned.
CreateWrite(p) ==
    /\ pc[p] = "create_write"
    /\ graph' = SavedDoc(graph, loc[p].buf[1])
    /\ graphTrunc' = FALSE
    /\ created' = created \cup {loc[p].target[1].id}
    /\ ret' = [ret EXCEPT ![p] = Returned("node", loc[p].target[1])]
    /\ loc' = [loc EXCEPT ![p] = InitLoc]
    /\ pc' = [pc EXCEPT ![p] = "returned"]
    /\ UNCHANGED <<logFiles, summaries, clock, nextTask, nextEvt, budget,
                   last_heartbeat_at, claimCount, coreEvents>>

\* update_task lines 63-67 for process p: load_graph, then the patched
\* document, kept for save_graph; KeyError when no node has the id.
UpdateLoad(p, next, task_id, patch, ticks) ==
    /\ IF graphTrunc
       THEN Raise(p, "JSONDecodeError") /\ UNCHANGED clock
       ELSE LET i == FindTask(graph, task_id)
            IN IF i = 0
               THEN Raise(p, "KeyError") /\ UNCHANGED clock
               ELSE \E now \in Now(ticks) :
                    LET node == PatchNode(graph[i], patch, NowIso(now))
                    IN /\ clock' = now
                       /\ loc' = [loc EXCEPT
                                    ![p].buf = Some([graph EXCEPT ![i] = node]),
                                    ![p].target = Some(node)]
                       /\ pc' = [pc EXCEPT ![p] = next]
                       /\ UNCHANGED ret
    /\ UNCHANGED <<shared, nextTask, nextEvt, budget, last_heartbeat_at, ghosts>>

\* update_task called by a submitter: lines 63-67.
UpdateCall(p, task_id, patch, ticks) ==
    /\ p \in Submitters
    /\ pc[p] = "idle"
    /\ UpdateLoad(p, "update_trunc", task_id, patch, ticks)

UpdateTrunc(p) == SaveTrunc(p, "update_trunc", "update_write")

\* update_task lines 68-69: save_graph's write, and the node is returned.
UpdateWrite(p) ==
    /\ pc[p] = "update_write"
    /\ graph' = SavedDoc(graph, loc[p].buf[1])
    /\ graphTrunc' = FALSE
    /\ ret' = [ret EXCEPT ![p] = Returned("updated", loc[p].target[1])]
    /\ loc' = [loc EXCEPT ![p] = InitLoc]
    /\ pc' = [pc EXCEPT ![p] = "returned"]
    /\ UNCHANGED <<logFiles, summaries, clock, nextTask, nextEvt, budget,
                   last_heartbeat_at, ghosts>>

----------------------------------------------------------------------------
(* log/query.py *)

\* append_event lines 20-23: the entry with its id and timestamp.
StampEntry(event, fresh, now) ==
    [k \in DOMAIN event \cup {"id", "timestamp"} |->
        IF k = "timestamp" THEN now
        ELSE IF k \in DOMAIN event THEN event[k] ELSE fresh]

\* A faulty append_event: the file opened with "w", the line replaces the
\* journal.
JournalOverwrite(lines, entry) == <<entry>>

\* append_event lines 24-32: the line is written at the end of the
\* conversation's file under the exclusive lock.
JournalWrite(lines, entry) == Append(lines, entry)

JournalAppend(j, entry) ==
    LET c == entry.conversation_id
    IN IF c \in DOMAIN j THEN [j EXCEPT ![c] = JournalWrite(@, entry)]
       ELSE j @@ (c :> JournalWrite(<<>>, entry))

\* The journal of a conversation, empty when it has no file.
JournalOf(j, c) == IF c \in DOMAIN j THEN j[c] ELSE <<>>

\* A faulty append_event that returns without os.fsync.
FsyncSkipped(stable, files, c) == stable

\* append_event line 31: os.fsync puts the whole file of the conversation
\* on stable storage.
Fsync(stable, files, c) ==
    IF c \in DOMAIN stable THEN [stable EXCEPT ![c] = files[c]]
    ELSE stable @@ (c :> files[c])

\* append_event lines 25-28 for the entry that process p has stamped: the
\* file is opened, LOCK_EX waits until no writer holds the file, and the
\* line starts to be written.
JournalLock(p) ==
    /\ pc[p] \in {"append_write", "emit_write", "result_write", "slice_write",
                  "narrate_write"}
    /\ LET c == loc[p].entry[1].conversation_id
       IN /\ c \notin DOMAIN journalLock
          /\ journalLock' = journalLock @@ (c :> p)
    /\ UNCHANGED <<graph, graphTrunc, journal, disk, appended, summaries,
                   clock, nextTask, nextEvt, pc, loc, ret, budget,
                   last_heartbeat_at, ghosts>>

\* append_event lines 28-33 for the writer p that holds the lock: the line
\* is complete, flushed and synced, the lock is released and the id
\* returned.
WriteLine(p) ==
    LET entry == loc[p].entry[1]
        c == entry.conversation_id
    IN /\ c \in DOMAIN journalLock
       /\ journalLock[c] = p
       /\ journal' = JournalAppend(journal, entry)
       /\ disk' = Fsync(disk, journal', c)
       /\ journalLock' = [d \in DOMAIN journalLock \ {c} |-> journalLock[d]]
       /\ appended' = appended \cup {[id |-> entry.id, conversation_id |-> c,
                                      crashed |-> FALSE]}

\* The bytes of a line that is partly written.
Torn(entry) == [fragment |-> entry]
IsTorn(line) == "fragment" \in DOMAIN line

\* What each file holds: its whole lines, then the partly written line of
\* the writer that holds it.
Files(j, lock, locals) ==
    [c \in DOMAIN j \cup DOMAIN lock |->
        JournalOf(j, c) \o (IF c \in DOMAIN lock
                            THEN <<Torn(locals[lock[c]].entry[1])>> ELSE <<>>)]

\* A faulty reader that does not take the shared lock.
NoSharedLock(lock, convs) == TRUE

\* tail line 41, _iter_all_events line 76: LOCK_SH waits until no writer
\* holds the file.
SharedLock(lock, convs) == \A c \in convs : c \notin DOMAIN lock

\* Python's seq[-n:] and seq[:-n]; -0 is 0, so n = 0 gives the whole
\* sequence and the empty one.
LastN(seq, n) ==
    IF n = 0 \/ n >= Len(seq) THEN seq
    ELSE SubSeq(seq, Len(seq) - n + 1, Len(seq))
DropLastN(seq, n) ==
    IF n = 0 \/ n >= Len(seq) THEN <<>>
    ELSE SubSeq(seq, 1, Len(seq) - n)

\* tail lines 37-44: no file gives [], else the last `limit` lines.
tail(j, c, limit) ==
    IF c \notin DOMAIN j THEN <<>> ELSE LastN(j[c], limit)

\* _iter_all_events: the files in the order of their sorted paths, each in
\* the order of its lines.
ConvOrder == <<"conv-1", "conv-2">> \o [n \in 1..MaxTasks |-> TaskId(n)]
RECURSIVE IterFrom(_, _)
IterFrom(j, k) ==
    IF k > Len(ConvOrder) THEN <<>>
    ELSE (IF ConvOrder[k] \in DOMAIN j THEN j[ConvOrder[k]] ELSE <<>>)
         \o IterFrom(j, k + 1)
IterAllEvents(j) == IterFrom(j, 1)

\* list.sort(key=timestamp): a stable sort by the timestamp strings.
RECURSIVE SortByTimestamp(_)
SortByTimestamp(seq) ==
    IF seq = <<>> THEN <<>>
    ELSE LET e == seq[Len(seq)]
             done == SortByTimestamp(SubSeq(seq, 1, Len(seq) - 1))
             k == Cardinality({i \in 1..Len(done) :
                                 ~StrLess(e.timestamp, done[i].timestamp)})
         IN SubSeq(done, 1, k) \o <<e>> \o SubSeq(done, k + 1, Len(done))

\* since lines 48-55: the events not older than the cutoff, sorted.
since(j, cutoff) ==
    SortByTimestamp(SelectSeq(IterAllEvents(j),
        LAMBDA e : ParseTimestamp(e.timestamp) >= ParseTimestamp(cutoff)))

\* by_type lines 59-68: the events of the types, of the visibility when one
\* is given, sorted.
by_type(j, types, visibility) ==
    SortByTimestamp(SelectSeq(IterAllEvents(j),
        LAMBDA e : /\ Get(e, "type") \in {Some(ty) : ty \in types}
                   /\ ~TruthyStr(visibility) \/ Get(e, "visibility") = visibility))

----------------------------------------------------------------------------
(* agents/base.py, agents/runtime.py *)

\* A faulty conversation_id that looks at the inputs first.
conversationIdInputsFirst(task) ==
    IF TruthyStr(Get(task.inputs, "conversation_id"))
    THEN task.inputs.conversation_id
    ELSE IF TruthyStr(Get(task.metadata, "conversation_id"))
    THEN task.metadata.conversation_id
    ELSE task.id

\* AgentTask.conversation_id.
conversation_id(task) ==
    IF TruthyStr(Get(task.metadata, "conversation_id"))
    THEN task.metadata.conversation_id
    ELSE IF TruthyStr(Get(task.inputs, "conversation_id"))
    THEN task.inputs.conversation_id
    ELSE task.id

\* AgentRuntime._to_agent_task.
ToAgentTask(node) ==
    [id |-> node.id, type |-> node.type, status |-> node.status,
     owner |-> node.owner, priority |-> node.priority, inputs |-> node.inputs,
     metadata |-> node.metadata, attempt |-> node.attempt]

\* A faulty poll_next_task that takes the first listed node whatever its
\* type.
FirstListed(tasks, ty) == IF tasks = <<>> THEN None ELSE Some(tasks[1])

\* poll_next_task lines 32-34: the first listed node of the runtime's type.
FirstOfType(tasks, ty) ==
    LET hits == {i \in 1..Len(tasks) : tasks[i].type = ty}
    IN IF hits = {} THEN None
       ELSE Some(tasks[CHOOSE i \in hits : \A j \in hits : i <= j])

\* A faulty poll_next_task that leaves attempt as it was.
ClaimPatchKeepAttempt(w, node) ==
    [status |-> "IN_PROGRESS", owner |-> Some(w), attempt |-> node.attempt]

\* poll_next_task lines 35-40: the patch of a claim.
ClaimPatch(w, node) ==
    [status |-> "IN_PROGRESS", owner |-> Some(w), attempt |-> node.attempt + 1]

\* A faulty _enforce_policy that strips a set flag instead of raising.
EnforcePolicyStrip(payload) ==
    [ok |-> TRUE, payload |-> Pop(payload, "render_to_user")]

\* A faulty _enforce_policy that lets every payload through as it is.
EnforcePolicyPass(payload) == [ok |-> TRUE, payload |-> payload]

\* AgentRuntime._enforce_policy: raise on a set flag, else drop the key.
EnforcePolicy(payload) ==
    IF TruthyFlag(Get(payload, "render_to_user"))
    THEN [ok |-> FALSE, payload |-> payload]
    ELSE [ok |-> TRUE, payload |-> Pop(payload, "render_to_user")]

\* AgentRuntime._append_event lines 103-110: the event handed to append_event.
RuntimeEvent(task, kind, payload) ==
    [conversation_id |-> conversation_id(task), type |-> kind,
     payload |-> payload, visibility |-> "internal"]

\* emit_update lines 51-60: the payload, progress left None.
UpdatePayload(w, task, message, extra) ==
    extra @@ [task_id |-> task.id, agent_id |-> w,
              agent_type |-> agent_type[w], message |-> message]

\* complete_task lines 66-74.
ResultPayload(w, result) ==
    [task_id |-> result.task_id, agent_id |-> w, agent_type |-> agent_type[w],
     outcome |-> result.outcome, artifacts |-> result.artifacts,
     notes |-> result.notes, next_actions |-> result.next_actions]

\* A faulty complete_task that stores the payload as the outputs.
CompletePatchFlat(payload) == [status |-> "COMPLETED", outputs |-> payload]

\* complete_task line 77: the patch of a completion.
CompletePatch(payload) ==
    [status |-> "COMPLETED", outputs |-> [result |-> payload]]

\* AgentError.to_payload.
ToPayload(error) ==
    [task_id |-> error.task_id, reason |-> error.reason,
     retryable |-> error.retryable, details |-> error.details]

\* fail_task lines 80-86.
FailedPayload(w, error) ==
    [task_id |-> error.task_id, agent_id |-> w, agent_type |-> agent_type[w],
     outcome |-> "failed", error |-> ToPayload(error)]

\* A faulty fail_task that queues a retryable failure again.
FailPatchRequeue(error) ==
    [status |-> IF error.retryable THEN "PENDING" ELSE "FAILED",
     outputs |-> [error |-> ToPayload(error)]]

\* fail_task lines 89-93: the patch of a failure.
FailPatch(error) ==
    [status |-> "FAILED", outputs |-> [error |-> ToPayload(error)]]

\* What execute_once calls once poll_next_task has returned a task (lines
\* 66-69), after handle_task has returned (lines 74-75) and after it has
\* raised AgentError (lines 71-72); `calls` of a worker is the list of the
\* calls its execute_once has made.
ClaimCalls == <<"on_assign", "on_progress", "handle_task">>
CompleteCalls == <<"on_complete", "complete_task">>
FailCallsAfterComplete == <<"on_complete", "on_error", "fail_task">>
FailCalls == <<"on_error", "fail_task">>

\* execute_once line 63, poll_next_task lines 31-34 and 42: list_active
\* and the choice of the node to claim; None ends execute_once (line 65).
PollList(w) ==
    /\ w \in Workers
    /\ pc[w] = "idle"
    /\ runs[w] < MaxRuns
    /\ IF graphTrunc
       THEN Raise(w, "JSONDecodeError") /\ UNCHANGED runs
       ELSE LET cand == FirstOfType(ListActive(graph, {"PENDING"}), agent_type[w])
            IN IF cand = None
               THEN /\ ret' = [ret EXCEPT ![w] = Returned("none", None)]
                    /\ pc' = [pc EXCEPT ![w] = "returned"]
                    /\ UNCHANGED <<loc, runs>>
               ELSE /\ loc' = [loc EXCEPT ![w] =
                                 [InitLoc EXCEPT !.cand = cand,
                                                 !.calls = <<"poll_next_task">>]]
                    /\ pc' = [pc EXCEPT ![w] = "claim_load"]
                    /\ runs' = [runs EXCEPT ![w] = @ + 1]
                    /\ UNCHANGED ret
    /\ UNCHANGED <<shared, clock, nextTask, nextEvt, ops, last_heartbeat_at,
                   ghosts>>

\* poll_next_task lines 35-40: update_task's load.
ClaimLoad(w, ticks) ==
    /\ w \in Workers
    /\ pc[w] = "claim_load"
    /\ UpdateLoad(w, "claim_trunc", loc[w].cand[1].id,
                  ClaimPatch(w, loc[w].cand[1]), ticks)

ClaimTrunc(w) == SaveTrunc(w, "claim_trunc", "claim_write")

\* update_task lines 68-69 and poll_next_task line 41; execute_once lines
\* 66-67: on_assign and on_progress of BaseAgent do nothing.
ClaimWrite(w) ==
    /\ pc[w] = "claim_write"
    /\ graph' = SavedDoc(graph, loc[w].buf[1])
    /\ graphTrunc' = FALSE
    /\ LET id == loc[w].target[1].id
       IN claimCount' = IF id \in DOMAIN claimCount
                        THEN [claimCount EXCEPT ![id] = @ + 1]
                        ELSE claimCount @@ (id :> 1)
    /\ loc' = [loc EXCEPT ![w].task = Some(ToAgentTask(loc[w].target[1])),
                          ![w].buf = None, ![w].target = None, ![w].cand = None,
                          ![w].calls = @ \o ClaimCalls]
    /\ pc' = [pc EXCEPT ![w] = "handle"]
    /\ UNCHANGED <<logFiles, summaries, clock, nextTask, nextEvt, ret, budget,
                   last_heartbeat_at, created, coreEvents>>

\* A hook that a subclass overrides raises AgentError: on_assign or
\* on_progress before handle_task has started (execute_once lines 66-67),
\* on_complete after it has returned (line 74).  None of them is inside the
\* try of lines 68-73, so the exception leaves execute_once.
HookRaise(w, hook) ==
    /\ w \in Workers
    /\ pc[w] = "handle"
    /\ hook \in {"on_assign", "on_progress"} => loc[w].nupd = 0
    /\ Raise(w, "AgentError")
    /\ UNCHANGED <<shared, clock, nextTask, nextEvt, budget, last_heartbeat_at,
                   ghosts>>

\* handle_task calls emit_update (lines 51-62): the payload, the policy
\* guard, then append_event up to its timestamp.  PolicyViolation is no
\* AgentError: it leaves execute_once.
EmitUpdate(w, extra, ticks) ==
    /\ w \in Workers
    /\ pc[w] = "handle"
    /\ loc[w].nupd < MaxUpdates
    /\ LET task == loc[w].task[1]
           checked == EnforcePolicy(UpdatePayload(w, task, "working", extra))
       IN IF ~checked.ok
          THEN Raise(w, "PolicyViolation") /\ UNCHANGED <<clock, nextEvt>>
          ELSE \E now \in Now(ticks) :
               /\ clock' = now
               /\ nextEvt' = nextEvt + 1
               /\ loc' = [loc EXCEPT
                    ![w].entry = Some(StampEntry(
                        RuntimeEvent(task, "AGENT_UPDATE", checked.payload),
                        nextEvt, NowIso(now))),
                    ![w].nupd = @ + 1]
               /\ pc' = [pc EXCEPT ![w] = "emit_write"]
               /\ UNCHANGED ret
    /\ UNCHANGED <<shared, nextTask, budget, last_heartbeat_at, ghosts>>

\* append_event lines 25-33, then emit_update line 63.
EmitWrite(w, ticks) ==
    /\ pc[w] = "emit_write"
    /\ WriteLine(w)
    /\ coreEvents' = coreEvents \cup {loc[w].entry[1].id}
    /\ \E now \in Now(ticks) :
        /\ clock' = now
        /\ last_heartbeat_at' = [last_heartbeat_at EXCEPT ![w] = Some(now)]
    /\ loc' = [loc EXCEPT ![w].entry = None]
    /\ pc' = [pc EXCEPT ![w] = "handle"]
    /\ UNCHANGED <<graph, graphTrunc, summaries, nextTask, nextEvt, ret, budget,
                   claimCount, created>>

\* AgentRuntime.__init__ line 27, as the test constructs the runtime: the
\* interval in the unit of time.time().
heartbeat_interval == [w \in Workers |-> 2]

\* heartbeat_due lines 96-99: `now or time.time()` takes the wall clock when
\* now is None and when now is 0.
HeartbeatDue(w, last_ts, now, wall) ==
    IF last_ts = None THEN TRUE
    ELSE LET current == IF now # None /\ now[1] # 0 THEN now[1] ELSE wall
         IN (current - last_ts[1]) >= heartbeat_interval[w]

\* A worker calls heartbeat_due; time.time() reads the clock.
HeartbeatDueCall(w, last_ts, now) ==
    /\ w \in Workers
    /\ pc[w] = "idle"
    /\ ret' = [ret EXCEPT ![w] = Returned("due", HeartbeatDue(w, last_ts, now, clock))]
    /\ loc' = [loc EXCEPT ![w].buf = Some([last_ts |-> last_ts, now |-> now])]
    /\ pc' = [pc EXCEPT ![w] = "returned"]
    /\ UNCHANGED <<shared, clock, nextTask, nextEvt, budget,
                   last_heartbeat_at, ghosts>>

\* The result event of complete_task or fail_task up to its timestamp
\* (_enforce_policy, _append_event, append_event lines 16-23).
ResultStamp(w, payload, patch, result, ticks) ==
    LET checked == EnforcePolicy(payload)
    IN IF ~checked.ok
       THEN Raise(w, "PolicyViolation") /\ UNCHANGED <<clock, nextEvt>>
       ELSE \E now \in Now(ticks) :
            /\ clock' = now
            /\ nextEvt' = nextEvt + 1
            /\ loc' = [loc EXCEPT
                 ![w].entry = Some(StampEntry(
                     RuntimeEvent(loc[w].task[1], "AGENT_RESULT", checked.payload),
                     nextEvt, NowIso(now))),
                 ![w].patch = Some(patch),
                 ![w].result = result,
                 ![w].calls = @ \o (IF result = None THEN FailCalls
                                    ELSE CompleteCalls)]
            /\ pc' = [pc EXCEPT ![w] = "result_write"]
            /\ UNCHANGED ret

\* handle_task returns an AgentResult (execute_once lines 69, 74-75):
\* on_complete of BaseAgent does nothing, complete_task starts.
HandleReturn(w, outcome, ticks) ==
    /\ w \in Workers
    /\ pc[w] = "handle"
    /\ LET result == [task_id |-> loc[w].task[1].id, outcome |-> outcome,
                      artifacts |-> <<>>, notes |-> None, next_actions |-> None]
           payload == ResultPayload(w, result)
       IN ResultStamp(w, payload, CompletePatch(payload), Some(result), ticks)
    /\ UNCHANGED <<shared, nextTask, budget, last_heartbeat_at, ghosts>>

\* handle_task raises AgentError (execute_once lines 70-72): on_error of
\* BaseAgent does nothing, fail_task starts.
HandleRaise(w, retryable, ticks) ==
    /\ w \in Workers
    /\ pc[w] = "handle"
    /\ LET error == [task_id |-> loc[w].task[1].id, reason |-> "boom",
                     retryable |-> retryable, details |-> <<>>]
       IN ResultStamp(w, FailedPayload(w, error), FailPatch(error), None, ticks)
    /\ UNCHANGED <<shared, nextTask, budget, last_heartbeat_at, ghosts>>

\* append_event lines 25-33 for the result event.
ResultWrite(w) ==
    /\ pc[w] = "result_write"
    /\ WriteLine(w)
    /\ coreEvents' = coreEvents \cup {loc[w].entry[1].id}
    /\ pc' = [pc EXCEPT ![w] = "done_load"]
    /\ UNCHANGED <<graph, graphTrunc, summaries, clock, nextTask, nextEvt,
                   loc, ret, budget, last_heartbeat_at, claimCount, created>>

\* complete_task line 77, fail_task lines 89-93: update_task's load.
DoneLoad(w, ticks) ==
    /\ w \in Workers
    /\ pc[w] = "done_load"
    /\ UpdateLoad(w, "done_trunc", loc[w].task[1].id, loc[w].patch[1], ticks)

DoneTrunc(w) == SaveTrunc(w, "done_trunc", "done_write")

\* update_task lines 68-69; execute_once returns the result (line 76), or
\* None after fail_task (line 73).
DoneWrite(w) ==
    /\ pc[w] = "done_write"
    /\ graph' = SavedDoc(graph, loc[w].buf[1])
    /\ graphTrunc' = FALSE
    /\ ret' = [ret EXCEPT ![w] =
                 IF loc[w].result = None THEN Returned("none", None)
                 ELSE Returned("result", loc[w].result[1])]
    /\ loc' = [loc EXCEPT ![w] = InitLoc]
    /\ pc' = [pc EXCEPT ![w] = "returned"]
    /\ UNCHANGED <<logFiles, summaries, clock, nextTask, nextEvt, budget,
                   last_heartbeat_at, ghosts>>

----------------------------------------------------------------------------
(* log/summarize.py, orchestrator/controller_runner.py *)

PyStr(text) == [str |-> text]
IsStr(v) == DOMAIN v = {"str"}

\* A rendered piece of text: a literal, or json.dumps(value, sort_keys=True).
Text(text) == [text |-> text, json |-> None]
Json(value) == [text |-> "json", json |-> Some(value)]

\* _stringify_event.
StringifyEvent(event) ==
    LET payload == Get(event, "payload")
    IN IF payload # None /\ IsStr(payload[1]) THEN Text(payload[1].str)
       ELSE IF payload # None THEN Json(payload[1])
       ELSE IF TruthyStr(Get(event, "message")) THEN Text(event.message)
       ELSE Text("(no payload)")

\* The event types in Python's string order, as sorted(groups.keys()) lists
\* them.
TypeOrder == <<"AGENT_RESULT", "AGENT_UPDATE", "ERROR", "NARRATION_SUPPRESSED",
               "SUMMARY_REFRESH", "UNKNOWN", "USER_MESSAGE">>

EventGroup(event) == IF "type" \in DOMAIN event THEN event.type ELSE "UNKNOWN"

\* A faulty rolling_summary that writes a heading for every event, in the
\* order of the events.
SummaryLinesUngrouped(events, k) ==
    IF k > 1 THEN <<>>
    ELSE [i \in 1..(2 * Len(events)) |->
            IF i % 2 = 1
            THEN [line |-> "heading",
                  item |-> Text(EventGroup(events[(i + 1) \div 2]))]
            ELSE [line |-> "item", item |-> StringifyEvent(events[i \div 2])]]

\* rolling_summary lines 15-24: per group, in sorted order, a heading and
\* one item per event in the order of the events.
RECURSIVE SummaryLines(_, _)
SummaryLines(events, k) ==
    IF k > Len(TypeOrder) THEN <<>>
    ELSE LET members == SelectSeq(events, LAMBDA e : EventGroup(e) = TypeOrder[k])
             items == [i \in 1..Len(members) |->
                         [line |-> "item", item |-> StringifyEvent(members[i])]]
         IN (IF members = <<>> THEN <<>>
             ELSE <<[line |-> "heading", item |-> Text(TypeOrder[k])]>> \o items)
            \o SummaryLines(events, k + 1)

\* hashlib.sha256 of the content: a digest that determines the content.
Sha256(content) == [sha256 |-> content]

\* A faulty rolling_summary whose content names the conversation.
rollingSummaryOfConversation(conv, events) ==
    LET content == <<[line |-> "heading", item |-> Text(conv)]>>
                       \o SummaryLines(events, 1)
    IN [conversation_id |-> conv, content |-> content,
        summary_ref |-> Sha256(content)]

\* rolling_summary.
rolling_summary(conv, events) ==
    LET content == SummaryLines(events, 1)
    IN [conversation_id |-> conv, content |-> content,
        summary_ref |-> Sha256(content)]

\* A faulty persist_summary that adds the content to the artifact it finds.
persistSummaryMerged(files, conv, summary) ==
    LET text == [header |-> summary.summary_ref, body |-> summary.content]
    IN IF conv \in DOMAIN files
       THEN [files EXCEPT ![conv] = [header |-> text.header,
                                     body |-> @.body \o text.body]]
       ELSE files @@ (conv :> text)

\* persist_summary: write_text replaces the conversation's artifact.
persist_summary(files, conv, summary) ==
    LET text == [header |-> summary.summary_ref, body |-> summary.content]
    IN IF conv \in DOMAIN files THEN [files EXCEPT ![conv] = text]
       ELSE files @@ (conv :> text)

\* _render_payload.
RenderPayload(payload) ==
    IF payload = None THEN Text("(no payload)")
    ELSE IF IsStr(payload[1]) THEN Text(payload[1].str)
    ELSE Json(payload[1])

\* build_context_slice lines 109-115 and 131: one line per kept event, then
\* the summary section.
SliceText(kept, summary_ref) ==
    [lines |-> [i \in 1..Len(kept) |->
                  [label |-> IF "type" \in DOMAIN kept[i] THEN kept[i].type
                             ELSE "EVENT",
                   payload |-> RenderPayload(Get(kept[i], "payload"))]],
     summary_ref |-> summary_ref]

\* build_context_slice lines 122-125, build_narrator_prompt lines 85-90: the
\* events the controller appends.
SummaryRefresh(conv, summary) ==
    [conversation_id |-> conv, type |-> "SUMMARY_REFRESH",
     payload |-> [summary_ref |-> summary.summary_ref],
     visibility |-> "internal"]
\* A faulty build_narrator_prompt that records the reason only.
NarrationSuppressedBare(conv, actions) ==
    [conversation_id |-> conv, type |-> "NARRATION_SUPPRESSED",
     payload |-> [reason |-> "speak_now=false"],
     visibility |-> "internal"]

NarrationSuppressed(conv, actions) ==
    [conversation_id |-> conv, type |-> "NARRATION_SUPPRESSED",
     payload |-> [reason |-> "speak_now=false", actions |-> actions],
     visibility |-> "internal"]

\* controller_runner.py lines 17-18.
SPEAK_HINTS == {"user_waiting", "task_completed", "agent_failed"}
TRIGGER_EVENT_TYPES == {"ERROR", "AGENT_RESULT"}

\* decide line 55 scans recent_events[-5:], line 65 lists the types of
\* recent_events[-3:].
TriggerWindow == 5
TypesWindow == 3

\* event.get("type") in TRIGGER_EVENT_TYPES.
IsTrigger(event) ==
    LET type == Get(event, "type")
    IN type # None /\ type[1] \in TRIGGER_EVENT_TYPES

\* A faulty decide that scans every recent event for a trigger.
decideAnyTrigger(hints, recent_events) ==
    LET recent == LastN(recent_events, TypesWindow)
    IN [speak_now |-> \/ \E i \in 1..Len(hints) : hints[i] \in SPEAK_HINTS
                      \/ \E i \in 1..Len(recent_events) :
                            IsTrigger(recent_events[i]),
        actions |-> <<[kind |-> "reflect", attention_hints |-> hints,
                       recent_event_types |->
                           [i \in 1..Len(recent) |-> Get(recent[i], "type")]]>>,
        notes |-> "Auto-gated via ControllerRunner"]

\* ControllerRunner.decide, lines 51-70.  `hints or []` maps None to the
\* empty list; both are <<>> here.
decide(hints, recent_events) ==
    LET window == LastN(recent_events, TriggerWindow)
        recent == LastN(recent_events, TypesWindow)
        speak == \/ \E i \in 1..Len(hints) : hints[i] \in SPEAK_HINTS
                 \/ \E i \in 1..Len(window) : IsTrigger(window[i])
    IN [speak_now |-> speak,
        actions |-> <<[kind |-> "reflect", attention_hints |-> hints,
                       recent_event_types |->
                           [i \in 1..Len(recent) |-> Get(recent[i], "type")]]>>,
        notes |-> "Auto-gated via ControllerRunner"]

\* A client starts a call that appends to the log.
ClientCall(p, quota) ==
    /\ p \in Clients
    /\ pc[p] = "idle"
    /\ ops < quota
    /\ ops' = ops + 1

\* A faulty append_event that raises only when the key is missing.
StampOrRaiseOnMissing(p, event, next, ticks) ==
    IF Get(event, "conversation_id") = None
    THEN Raise(p, "ValueError") /\ UNCHANGED <<clock, nextEvt>>
    ELSE \E now \in Now(ticks) :
         /\ clock' = now
         /\ nextEvt' = nextEvt + 1
         /\ loc' = [loc EXCEPT
                      ![p].entry = Some(StampEntry(event, nextEvt, NowIso(now)))]
         /\ pc' = [pc EXCEPT ![p] = next]
         /\ UNCHANGED ret

\* append_event lines 16-23: ValueError without a conversation id, else the
\* entry with its id and timestamp, both taken before the file is locked.
StampOrRaise(p, event, next, ticks) ==
    IF ~TruthyStr(Get(event, "conversation_id"))
    THEN Raise(p, "ValueError") /\ UNCHANGED <<clock, nextEvt>>
    ELSE \E now \in Now(ticks) :
         /\ clock' = now
         /\ nextEvt' = nextEvt + 1
         /\ loc' = [loc EXCEPT
                      ![p].entry = Some(StampEntry(event, nextEvt, NowIso(now)))]
         /\ pc' = [pc EXCEPT ![p] = next]
         /\ UNCHANGED ret

\* append_event called by a client.
AppendStamp(p, event, quota, ticks) ==
    /\ ClientCall(p, quota)
    /\ StampOrRaise(p, event, "append_write", ticks)
    /\ UNCHANGED <<shared, nextTask, runs, last_heartbeat_at, ghosts>>

\* append_event lines 24-33.
AppendWrite(p) ==
    /\ pc[p] = "append_write"
    /\ WriteLine(p)
    /\ ret' = [ret EXCEPT ![p] = Returned("id", loc[p].entry[1].id)]
    /\ loc' = [loc EXCEPT ![p] = InitLoc]
    /\ pc' = [pc EXCEPT ![p] = "returned"]
    /\ UNCHANGED <<graph, graphTrunc, summaries, clock, nextTask, nextEvt,
                   budget, last_heartbeat_at, ghosts>>

\* The machine crashes and the processes start again: what was not synced is
\* lost, every lock is released and every call is gone.  No save_graph is
\* under way.
Crash ==
    /\ ~graphTrunc
    /\ journal' = disk
    /\ journalLock' = <<>>
    /\ appended' = {[a EXCEPT !.crashed = TRUE] : a \in appended}
    /\ pc' = [p \in Procs |-> "idle"]
    /\ loc' = [p \in Procs |-> InitLoc]
    /\ ret' = [p \in Procs |-> Returned("none", None)]
    /\ last_heartbeat_at' = [w \in Workers |-> None]
    /\ UNCHANGED <<graph, graphTrunc, disk, summaries, clock, nextTask,
                   nextEvt, budget, ghosts>>

\* A query of the log returns and changes nothing else.
Query(p, events) ==
    /\ p \in Clients
    /\ pc[p] = "idle"
    /\ ret' = [ret EXCEPT ![p] = Returned("events", events)]
    /\ pc' = [pc EXCEPT ![p] = "returned"]
    /\ UNCHANGED <<shared, clock, nextTask, nextEvt, loc, budget,
                   last_heartbeat_at, ghosts>>

\* A reader under the shared lock of the files it reads: json.loads of a
\* partly written line raises, else the query returns its events.
ReadQuery(p, convs, lines, events) ==
    /\ SharedLock(journalLock, convs)
    /\ IF \E i \in 1..Len(lines) : IsTorn(lines[i])
       THEN /\ p \in Clients
            /\ pc[p] = "idle"
            /\ Raise(p, "JSONDecodeError")
            /\ UNCHANGED <<shared, clock, nextTask, nextEvt, budget,
                           last_heartbeat_at, ghosts>>
       ELSE Query(p, events)

\* tail parses the last `limit` lines; since and by_type parse every line
\* of every file, read here at one instant.
TailCall(p, conv, limit) ==
    LET files == Files(journal, journalLock, loc)
    IN ReadQuery(p, {conv}, tail(files, conv, limit), tail(files, conv, limit))
SinceCall(p, cutoff) ==
    LET files == Files(journal, journalLock, loc)
    IN ReadQuery(p, DOMAIN files, IterAllEvents(files), since(files, cutoff))
ByTypeCall(p, types, visibility) ==
    LET files == Files(journal, journalLock, loc)
    IN ReadQuery(p, DOMAIN files, IterAllEvents(files),
                 by_type(files, types, visibility))

\* build_context_slice lines 109-116 on the events of the conversation that
\* the caller read from its journal: nothing trimmed returns the text.
BuildContextSlice(p, conv, max_events, quota) ==
    /\ ClientCall(p, quota)
    /\ SharedLock(journalLock, {conv})
    /\ LET events == tail(journal, conv, 0)
           kept == LastN(events, max_events)
           trimmed == DropLastN(events, max_events)
       IN IF trimmed = <<>>
          THEN /\ ret' = [ret EXCEPT ![p] = Returned("text", SliceText(kept, None))]
               /\ pc' = [pc EXCEPT ![p] = "returned"]
               /\ UNCHANGED loc
          ELSE LET summary == rolling_summary(conv, trimmed)
               IN /\ loc' = [loc EXCEPT
                      ![p].buf = Some(summary),
                      ![p].result = Some(SliceText(kept, Some(summary.summary_ref)))]
                  /\ pc' = [pc EXCEPT ![p] = "slice_persist"]
                  /\ UNCHANGED ret
    /\ UNCHANGED <<shared, clock, nextTask, nextEvt, runs, last_heartbeat_at,
                   ghosts>>

\* build_context_slice lines 118-125: persist_summary, then append_event up
\* to its timestamp.
PersistSummary(p, ticks) ==
    /\ pc[p] = "slice_persist"
    /\ LET summary == loc[p].buf[1]
       IN /\ summaries' = persist_summary(summaries, summary.conversation_id,
                                          summary)
          /\ StampOrRaise(p, SummaryRefresh(summary.conversation_id, summary),
                          "slice_write", ticks)
    /\ UNCHANGED <<graph, graphTrunc, logFiles, nextTask, budget,
                   last_heartbeat_at, ghosts>>

\* A call of rolling_summary: it returns the summary and keeps its
\* arguments as locals.
SummarizeCall(p, conv, events) ==
    /\ p \in Clients
    /\ pc[p] = "idle"
    /\ ret' = [ret EXCEPT ![p] = Returned("summary",
                                          rolling_summary(conv, events))]
    /\ loc' = [loc EXCEPT ![p].buf = Some([conversation_id |-> conv,
                                           events |-> events])]
    /\ pc' = [pc EXCEPT ![p] = "returned"]
    /\ UNCHANGED <<shared, clock, nextTask, nextEvt, budget,
                   last_heartbeat_at, ghosts>>

\* A call of persist_summary: it returns the path of the artifact and keeps
\* its arguments as locals.
PersistCall(p, conv, summary) ==
    /\ p \in Clients
    /\ pc[p] = "idle"
    /\ summaries' = persist_summary(summaries, conv, summary)
    /\ ret' = [ret EXCEPT ![p] = Returned("path", conv)]
    /\ loc' = [loc EXCEPT ![p].buf = Some([conversation_id |-> conv,
                                           summary |-> summary])]
    /\ pc' = [pc EXCEPT ![p] = "returned"]
    /\ UNCHANGED <<graph, graphTrunc, logFiles, clock, nextTask, nextEvt,
                   budget, last_heartbeat_at, ghosts>>

\* The controller's event is written (append_event lines 24-33) and the
\* call returns: build_context_slice line 131, build_narrator_prompt line 93.
ControllerWrite(p, here) ==
    /\ pc[p] = here
    /\ WriteLine(p)
    /\ coreEvents' = coreEvents \cup {loc[p].entry[1].id}
    /\ ret' = [ret EXCEPT ![p] = IF loc[p].result = None
                                 THEN Returned("none", None)
                                 ELSE Returned("text", loc[p].result[1])]
    /\ loc' = [loc EXCEPT ![p] = InitLoc]
    /\ pc' = [pc EXCEPT ![p] = "returned"]
    /\ UNCHANGED <<graph, graphTrunc, summaries, clock, nextTask, nextEvt,
                   budget, last_heartbeat_at, claimCount, created>>

SliceWrite(p) == ControllerWrite(p, "slice_write")

\* build_narrator_prompt: the suppression event when speak_now is false,
\* else the template with its placeholders filled.
BuildNarratorPrompt(p, actions, context, speak_now, conv, quota, ticks) ==
    /\ ClientCall(p, quota)
    /\ IF ~speak_now
       THEN StampOrRaise(p, NarrationSuppressed(conv, actions), "narrate_write",
                         ticks)
       ELSE /\ ret' = [ret EXCEPT ![p] = Returned("prompt",
                        [narration_context |-> IF context = ""
                                               THEN "No recent context."
                                               ELSE context,
                         user_context |-> Json(actions)])]
            /\ pc' = [pc EXCEPT ![p] = "returned"]
            /\ UNCHANGED <<loc, clock, nextEvt>>
    /\ UNCHANGED <<shared, nextTask, runs, last_heartbeat_at, ghosts>>

NarrateWrite(p) == ControllerWrite(p, "narrate_write")

\* A call of decide: it returns the decision and keeps its arguments as
\* locals.
DecideCall(p, hints, recent_events) ==
    /\ p \in Clients
    /\ pc[p] = "idle"
    /\ ret' = [ret EXCEPT ![p] = Returned("decision",
                                          decide(hints, recent_events))]
    /\ loc' = [loc EXCEPT ![p].buf = Some([hints |-> hints,
                                           recent_events |-> recent_events])]
    /\ pc' = [pc EXCEPT ![p] = "returned"]
    /\ UNCHANGED <<shared, clock, nextTask, nextEvt, budget,
                   last_heartbeat_at, ghosts>>

----------------------------------------------------------------------------
(* The callers and their inputs *)

\* The drafts a submitter passes to create_task.
Drafts ==
    {[type |-> ty, status |-> "PENDING", metadata |-> md] :
        ty \in TaskTypes, md \in {<<>>, [conversation_id |-> "conv-1"]}}

\* The extra maps a handler passes to emit_update.
Extras == {None, [render_to_user |-> TRUE], [render_to_user |-> FALSE]}

Outcomes == {"success", "partial"}

\* The hooks of execute_once that an agent may override.
Hooks == {"on_assign", "on_progress", "on_complete"}

\* The events a client passes to append_event.
ClientEvents ==
    {[conversation_id |-> "conv-1", type |-> "USER_MESSAGE",
      payload |-> PyStr("hi"), visibility |-> "user"],
     [conversation_id |-> "conv-1", type |-> "ERROR",
      payload |-> [reason |-> "timeout"]],
     [conversation_id |-> "", type |-> "ERROR"],
     [type |-> "ERROR"]}

Conversations == {"conv-1", "conv-2"}
Actions == <<[kind |-> "reflect"]>>

Inputs == [drafts |-> Drafts, extras |-> Extras, outcomes |-> Outcomes,
           retryable |-> BOOLEAN, ticks |-> 0..MaxClock,
           events |-> ClientEvents, convs |-> Conversations,
           limits |-> 0..MaxWindow,
           types |-> {{"ERROR", "AGENT_RESULT"}},
           visibility |-> {None, Some("internal")}, ops |-> MaxOps,
           hooks |-> Hooks]

SerialDrafts ==
    {d \in Drafts : d.type = "coder" \/ d.metadata = <<>>}

\* Calls made one at a time: one conversation for the
\* controller, and a clock that does not advance during the run.
SerialInputs == [Inputs EXCEPT !.drafts = SerialDrafts,
                               !.convs = {"conv-1"}, !.ticks = {0},
                               !.ops = MaxSerialOps]

\* Submitter steps.
SubmitterStep(p, in) ==
    \/ \E draft \in in.drafts : CreateLoad(p, draft, in.ticks)
    \/ CreateTrunc(p)
    \/ CreateWrite(p)
    \/ Continue(p)

\* Worker steps of execute_once, but for emit_update.
WorkerStep(p, in) ==
    \/ PollList(p)
    \/ ClaimLoad(p, in.ticks)
    \/ ClaimTrunc(p)
    \/ ClaimWrite(p)
    \/ \E outcome \in in.outcomes : HandleReturn(p, outcome, in.ticks)
    \/ \E retryable \in in.retryable : HandleRaise(p, retryable, in.ticks)
    \/ JournalLock(p)
    \/ ResultWrite(p)
    \/ DoneLoad(p, in.ticks)
    \/ DoneTrunc(p)
    \/ DoneWrite(p)
    \/ Continue(p)

\* Worker steps of emit_update.
EmitStep(p, in) ==
    \/ \E extra \in in.extras : EmitUpdate(p, extra, in.ticks)
    \/ EmitWrite(p, in.ticks)

\* Worker steps of the hooks of a subclass of BaseAgent.
HookStep(p, in) == \E hook \in in.hooks : HookRaise(p, hook)

\* Client steps on the log and the controller.
ClientStep(p, in) ==
    \/ \E event \in in.events : AppendStamp(p, event, in.ops, in.ticks)
    \/ JournalLock(p)
    \/ AppendWrite(p)
    \/ \E conv \in in.convs, limit \in in.limits : TailCall(p, conv, limit)
    \/ \E t \in 0..MaxClock : SinceCall(p, NowIso(t))
    \/ \E types \in in.types, visibility \in in.visibility :
            ByTypeCall(p, types, visibility)
    \/ \E conv \in in.convs, max_events \in in.limits :
            BuildContextSlice(p, conv, max_events, in.ops)
    \/ PersistSummary(p, in.ticks)
    \/ SliceWrite(p)
    \/ \E speak_now \in BOOLEAN, conv \in in.convs :
            BuildNarratorPrompt(p, Actions, "", speak_now, conv, in.ops, in.ticks)
    \/ NarrateWrite(p)
    \/ Continue(p)

\* A call is started, or continued, only while every other process is idle.
Serial(p) == \A q \in Procs \ {p} : pc[q] = "idle"

Next ==
    \E p \in SerialProcs :
        /\ Serial(p)
        /\ \/ SubmitterStep(p, SerialInputs)
           \/ WorkerStep(p, SerialInputs)
           \/ EmitStep(p, SerialInputs)
           \/ HookStep(p, SerialInputs)
           \/ ClientStep(p, SerialInputs)

Spec == Init /\ [][Next]_vars

\* Concurrent workers and a submitter: handlers that emit no update, tasks
\* of one conversation, and a clock that does not advance during the run.
ConcInputs == [drafts |-> {d \in Drafts : d.metadata # <<>>},
               outcomes |-> {"success"}, retryable |-> {FALSE}, ticks |-> {0}]

ConcNext ==
    \E p \in ConcProcs : SubmitterStep(p, ConcInputs) \/ WorkerStep(p, ConcInputs)

ConcSpec == Init /\ [][ConcNext]_vars

\* Concurrent clients of the log, and a clock that advances.
LogNext == \E p \in Clients : ClientStep(p, Inputs)

LogSpec == Init /\ [][LogNext]_vars

\* The hints and the recent events a controller passes to decide.
HintLists ==
    {<<>>, <<"user_waiting">>, <<"idle">>, <<"idle", "task_completed">>,
     <<"agent_failed">>}
RecentTypes == {"USER_MESSAGE", "AGENT_UPDATE", "ERROR", "AGENT_RESULT"}
RecentEvents == {[type |-> t] : t \in RecentTypes}

\* One controller that appends to the log and calls decide.
DecideInputs == [hints |-> HintLists, recent |-> RecentEvents,
                 lengths |-> 0..MaxRecent, events |-> ClientEvents, ticks |-> {0}, ops |-> MaxSerialOps]

DecideStep(p, in) ==
    \/ /\ pc[p] = "idle"
       /\ \E hints \in in.hints, n \in in.lengths :
            \E recent_events \in [1..n -> in.recent] :
                DecideCall(p, hints, recent_events)
    \/ \E event \in in.events : AppendStamp(p, event, in.ops, in.ticks)
    \/ JournalLock(p)
    \/ AppendWrite(p)
    \/ Continue(p)

DecideNext == \E p \in {"c1"} : DecideStep(p, DecideInputs)

DecideSpec == Init /\ [][DecideNext]_vars

\* Clients that append and read while the machine may crash at any step.
CrashInputs == [events |-> ClientEvents, convs |-> Conversations,
                limits |-> 0..MaxWindow, ticks |-> {0}, ops |-> MaxOps]

CrashStep(p, in) ==
    \/ \E event \in in.events : AppendStamp(p, event, in.ops, in.ticks)
    \/ JournalLock(p)
    \/ AppendWrite(p)
    \/ \E conv \in in.convs, limit \in in.limits : TailCall(p, conv, limit)
    \/ Continue(p)

CrashNext == (\E p \in Clients : CrashStep(p, CrashInputs)) \/ Crash

CrashSpec == Init /\ [][CrashNext]_vars

\* The event lists a caller passes to rolling_summary, and the summaries it
\* passes to persist_summary.
SummaryEvents ==
    [hi |-> [type |-> "USER_MESSAGE", payload |-> PyStr("hi")],
     bye |-> [type |-> "USER_MESSAGE", payload |-> PyStr("bye")],
     working |-> [type |-> "AGENT_UPDATE", payload |-> [state |-> "working"]],
     note |-> [message |-> "note"]]
SummaryLists ==
    {<<>>, <<SummaryEvents.hi>>,
     <<SummaryEvents.hi, SummaryEvents.working, SummaryEvents.bye>>,
     <<SummaryEvents.bye, SummaryEvents.working, SummaryEvents.hi>>,
     <<SummaryEvents.note, SummaryEvents.working>>}
SummaryDicts == {rolling_summary("conv-1", events) : events \in SummaryLists}

\* Clients that summarize and persist while the log grows.
SummaryInputs == [lists |-> SummaryLists, dicts |-> SummaryDicts,
                  convs |-> Conversations, events |-> ClientEvents,
                  ticks |-> {0}, ops |-> MaxSerialOps]

SummaryStep(p, in) ==
    \/ /\ pc[p] = "idle"
       /\ \E conv \in in.convs, events \in in.lists :
            SummarizeCall(p, conv, events)
    \/ /\ pc[p] = "idle"
       /\ \E conv \in in.convs, summary \in in.dicts :
            PersistCall(p, conv, summary)
    \/ \E event \in in.events : AppendStamp(p, event, in.ops, in.ticks)
    \/ JournalLock(p)
    \/ AppendWrite(p)
    \/ Continue(p)

SummaryNext == \E p \in Clients : SummaryStep(p, SummaryInputs)

SummarySpec == Init /\ [][SummaryNext]_vars

\* The callers of the store, one call at a time: a submitter that passes
\* the optional fields of a draft (an id of its own, a created_at, a
\* priority) and calls update_task with ids and patches of its choice, and
\* one worker that polls.
OwnId == "task-0"
UnknownId == "task-9"
StoreInputs ==
    [drafts |->
        {[type |-> ty, status |-> st] :
            ty \in TaskTypes, st \in {"PENDING", "COMPLETED"}}
        \cup {[type |-> "coder", status |-> "PENDING", id |-> OwnId],
              [type |-> "coder", status |-> "PENDING", priority |-> 5],
              [type |-> "coder", status |-> "PENDING",
               created_at |-> NowIso(MaxClock)]},
     patches |->
        {[status |-> "PENDING"], [status |-> "COMPLETED"], [priority |-> 5],
         [id |-> OwnId], [created_at |-> NowIso(MaxClock)]},
     ids |-> TaskIds \cup {OwnId, UnknownId},
     outcomes |-> {"success"}, retryable |-> {FALSE},
     ticks |-> 0..MaxClock]

StoreStep(p, in) ==
    \/ SubmitterStep(p, in)
    \/ /\ pc[p] = "idle"
       /\ \E task_id \in in.ids, patch \in in.patches :
            UpdateCall(p, task_id, patch, in.ticks)
    \/ UpdateTrunc(p)
    \/ UpdateWrite(p)
    \/ WorkerStep(p, in)

StoreNext == \E p \in Submitters \cup {"w1"} : Serial(p) /\ StoreStep(p, StoreInputs)

StoreSpec == Init /\ [][StoreNext]_vars

\* A submitter whose drafts name a conversation in the metadata, in the
\* inputs, in both or in neither, and two workers; one call at a time.
RouteInputs ==
    [drafts |->
        {[type |-> "coder", status |-> "PENDING",
          metadata |-> md, inputs |-> inp] :
            md \in {<<>>, [conversation_id |-> "conv-1"],
                    [conversation_id |-> ""]},
            inp \in {<<>>, [conversation_id |-> "conv-2"]}},
     extras |-> {None}, outcomes |-> {"success"}, retryable |-> {FALSE},
     ticks |-> {0}]

RouteNext ==
    \E p \in Submitters \cup Workers :
        /\ Serial(p)
        /\ \/ SubmitterStep(p, RouteInputs)
           \/ WorkerStep(p, RouteInputs)
           \/ EmitStep(p, RouteInputs)

RouteSpec == Init /\ [][RouteNext]_vars

\* Concurrent controllers that append user messages to one conversation
\* and call build_context_slice on its events with max_events = 1.
SliceStep(p, in) ==
    \/ \E event \in in.events : AppendStamp(p, event, in.ops, in.ticks)
    \/ JournalLock(p)
    \/ AppendWrite(p)
    \/ \E conv \in in.convs, max_events \in in.limits :
            BuildContextSlice(p, conv, max_events, in.ops)
    \/ PersistSummary(p, in.ticks)
    \/ SliceWrite(p)
    \/ Continue(p)

SliceNext ==
    \E p \in Clients :
        SliceStep(p, [events |-> {e \in ClientEvents :
                                    Get(e, "type") = Some("USER_MESSAGE")},
                      convs |-> {"conv-1"}, limits |-> {1},
                      ops |-> MaxSliceOps, ticks |-> {0}])

SliceSpec == Init /\ [][SliceNext]_vars

\* Concurrent workers and a submitter on a machine that may crash at any
\* step.
WorkCrashNext ==
    \/ \E p \in ConcProcs : SubmitterStep(p, ConcInputs) \/ WorkerStep(p, ConcInputs)
    \/ Crash

WorkCrashSpec == Init /\ [][WorkCrashNext]_vars

\* Concurrent workers that keep calling execute_once, MaxRuns claims each,
\* and a submitter; a process that can take a step takes one in the end.
FairInputs == [drafts |-> {d \in Drafts : d.type = "coder" /\ d.metadata # <<>>},
               outcomes |-> {"success"}, retryable |-> {FALSE}, ticks |-> {0}]

FairNext ==
    \/ \E p \in Submitters : SubmitterStep(p, FairInputs)
    \/ \E p \in Workers : WorkerStep(p, FairInputs)

FairSpec ==
    /\ Init /\ [][FairNext]_vars
    /\ \A p \in Submitters : WF_vars(SubmitterStep(p, FairInputs))
    /\ \A p \in Workers : WF_vars(WorkerStep(p, FairInputs))

\* Workers that call heartbeat_due at some reading of the wall clock.
BeatTimes == {None} \cup {Some(t) : t \in 0..MaxBeat}

HeartbeatInit ==
    /\ clock \in 0..MaxBeat
    /\ graph = <<>>
    /\ graphTrunc = FALSE
    /\ journal = <<>>
    /\ disk = <<>>
    /\ journalLock = <<>>
    /\ appended = {}
    /\ summaries = <<>>
    /\ nextTask = 1
    /\ nextEvt = 1
    /\ pc = [p \in Procs |-> "idle"]
    /\ loc = [p \in Procs |-> InitLoc]
    /\ ret = [p \in Procs |-> Returned("none", None)]
    /\ runs = [w \in Workers |-> 0]
    /\ ops = 0
    /\ last_heartbeat_at = [w \in Workers |-> None]
    /\ claimCount = [t \in {} |-> 0]
    /\ created = {}
    /\ coreEvents = {}

HeartbeatStep(w) ==
    \/ /\ pc[w] = "idle"
       /\ \E last_ts \in BeatTimes, now \in BeatTimes :
            HeartbeatDueCall(w, last_ts, now)
    \/ Continue(w)

HeartbeatNext == \E w \in Workers : HeartbeatStep(w)

HeartbeatSpec == HeartbeatInit /\ [][HeartbeatNext]_vars

----------------------------------------------------------------------------
(* Properties of the task registry under concurrent callers *)

\* C1: no two poll_next_task calls return the same task: each task id is
\* returned by at most one call, whatever the interleaving of the load and
\* save steps of list_active and update_task.
NoTaskClaimedTwice == \A id \in DOMAIN claimCount : claimCount[id] <= 1

\* How far a status is along PENDING -> IN_PROGRESS -> COMPLETED or FAILED.
StatusStage(status) ==
    IF status = "PENDING" THEN 0 ELSE IF status = "IN_PROGRESS" THEN 1 ELSE 2

WorkerWrites(w) ==
    /\ pc[w] \in {"claim_write", "done_write"}
    /\ pc'[w] # pc[w]

\* C2: a write of a worker (poll_next_task, complete_task, fail_task) never
\* moves the stored status of a task backwards along PENDING -> IN_PROGRESS
\* -> COMPLETED or FAILED: COMPLETED or FAILED is never set to IN_PROGRESS
\* or PENDING again, IN_PROGRESS never to PENDING.
StatusOnlyMovesForward ==
    [][(\E w \in Workers : WorkerWrites(w)) =>
         \A i \in 1..Len(graph) : \A j \in 1..Len(graph') :
            graph[i].id = graph'[j].id =>
                StatusStage(graph[i].status) <= StatusStage(graph'[j].status)]_vars

\* C7: once create_task has returned a task, a task with that id is in the
\* registry in every later state.
CreatedTasksStay == \A id \in created : FindTask(graph, id) # 0

\* C8: a registry write of create_task or update_task changes the task it
\* is about and nothing else: every other task of the document that the
\* file held before the write is still there, unchanged, so no write puts
\* back a stale copy of what another operation has written.
NoStaleOverwrite ==
    [][\A p \in Procs :
         (pc[p] \in {"create_write", "claim_write", "done_write"}
            /\ pc'[p] # pc[p]) =>
         \A i \in 1..Len(graph) :
            graph[i].id # loc[p].target[1].id =>
                i <= Len(graph') /\ graph'[i] = graph[i]]_vars

----------------------------------------------------------------------------
(* Properties of the event log *)

\* C5: in every conversation the order of the journal is the timestamp
\* order of its events: timestamps never decrease along the journal.
JournalInTimestampOrder ==
    \A c \in DOMAIN journal :
        \A i, j \in 1..Len(journal[c]) :
            i < j => ParseTimestamp(journal[c][i].timestamp)
                        <= ParseTimestamp(journal[c][j].timestamp)

\* C6: the log is append-only: over every step of the log, the runtime and
\* the controller, each journal before the step is a prefix of the journal
\* after it.
JournalAppendOnly ==
    [][\A c \in DOMAIN journal :
         /\ c \in DOMAIN journal'
         /\ Len(journal[c]) <= Len(journal'[c])
         /\ \A i \in 1..Len(journal[c]) : journal'[c][i] = journal[c][i]]_vars

\* The runtime and then the controller have appended to conv-1: a summary
\* refresh follows a task's update and result.
JournalGrewByBothWriters ==
    /\ "conv-1" \in DOMAIN journal
    /\ \E i, j, k \in 1..Len(journal["conv-1"]) :
        /\ i < j /\ j < k
        /\ journal["conv-1"][i].type = "AGENT_UPDATE"
        /\ journal["conv-1"][j].type = "AGENT_RESULT"
        /\ journal["conv-1"][k].type = "SUMMARY_REFRESH"

----------------------------------------------------------------------------
(* Properties of the agent runtime, calls made one at a time *)

\* C3: emit_update with render_to_user set in the extra map raises
\* PolicyViolation and appends nothing: the journals, the registry and the
\* runtime's last_heartbeat_at are unchanged and the call is over.
FlaggedUpdateRejected ==
    [][\A w \in Workers : \A extra \in Extras :
         (TruthyFlag(Get(extra, "render_to_user"))
            /\ EmitUpdate(w, extra, SerialInputs.ticks)) =>
         /\ pc'[w] = "returned"
         /\ ret'[w].kind = "raised" /\ ret'[w].val = "PolicyViolation"
         /\ journal' = journal
         /\ graph' = graph /\ graphTrunc' = graphTrunc
         /\ last_heartbeat_at' = last_heartbeat_at]_vars

\* A handler's emit_update has just raised PolicyViolation.
PolicyViolationRaised ==
    \E w \in Workers :
        /\ pc[w] = "returned"
        /\ ret[w].kind = "raised" /\ ret[w].val = "PolicyViolation"

\* C4: every event that the runtime or the controller appended has
\* visibility "internal" and a payload in which render_to_user is not set.
CoreEventsInternal ==
    \A c \in DOMAIN journal : \A i \in 1..Len(journal[c]) :
        journal[c][i].id \in coreEvents =>
            /\ journal[c][i].visibility = "internal"
            /\ ~TruthyFlag(Get(journal[c][i].payload, "render_to_user"))

\* A journal holds an update of the runtime and a suppression event of the
\* controller.
CoreEventsOfBothKinds ==
    \E c \in DOMAIN journal : \E i, j \in 1..Len(journal[c]) :
        /\ journal[c][i].id \in coreEvents
        /\ journal[c][j].id \in coreEvents
        /\ journal[c][i].type = "AGENT_UPDATE"
        /\ journal[c][j].type = "NARRATION_SUPPRESSED"

\* The events of a task that the runtime appended to its conversation.
TaskEvents(j, task) ==
    LET c == conversation_id(task)
    IN IF c \notin DOMAIN j THEN <<>>
       ELSE SelectSeq(j[c], LAMBDA e :
                /\ e.id \in coreEvents
                /\ e.type \in {"AGENT_UPDATE", "AGENT_RESULT"}
                /\ e.payload.task_id = task.id)

\* execute_once returns to its caller at this step: update_task has written.
ExecuteOnceEnds(w) == pc[w] = "done_write" /\ pc'[w] = "returned"

\* One AGENT_RESULT event, after the AGENT_UPDATE events of the handler.
UpdatesThenResult(events, updates) ==
    /\ Len(events) = updates + 1
    /\ \A k \in 1..updates : events[k].type = "AGENT_UPDATE"
    /\ events[updates + 1].type = "AGENT_RESULT"

\* C9: when handle_task has returned an AgentResult, complete_task runs to
\* its end and execute_once returns the result; then the task's
\* conversation holds the handler's AGENT_UPDATE events followed by exactly
\* one AGENT_RESULT event with the result's outcome, and the task is stored
\* COMPLETED with outputs = {result: that payload}.
CompletionRecorded ==
    [][\A w \in Workers :
         /\ \A outcome \in Outcomes :
              HandleReturn(w, outcome, SerialInputs.ticks) =>
                  pc'[w] = "result_write"
         /\ (loc[w].result # None /\ pc'[w] = "returned") => ExecuteOnceEnds(w)
         /\ (loc[w].result # None /\ ExecuteOnceEnds(w)) =>
              LET task == loc[w].task[1]
                  result == loc[w].result[1]
                  events == TaskEvents(journal', task)
                  i == FindTask(graph', task.id)
              IN /\ UpdatesThenResult(events, loc[w].nupd)
                 /\ events[Len(events)].payload.outcome = result.outcome
                 /\ i # 0
                 /\ graph'[i].status = "COMPLETED"
                 /\ graph'[i].outputs = [result |-> events[Len(events)].payload]
                 /\ ret'[w].kind = "result"
                 /\ ret'[w].val = result]_vars

\* execute_once has returned a result for a task whose handler emitted one
\* update: the task's events are [AGENT_UPDATE, AGENT_RESULT].
ResultAfterOneUpdate ==
    \E w \in Workers :
        /\ pc[w] = "returned"
        /\ ret[w].kind = "result"
        /\ LET i == FindTask(graph, ret[w].val.task_id)
           IN /\ i # 0
              /\ graph[i].status = "COMPLETED"
              /\ UpdatesThenResult(TaskEvents(journal, graph[i]), 1)

\* C10: when handle_task has raised AgentError, fail_task runs to its end
\* and execute_once returns None without raising; then the task's
\* conversation holds exactly one AGENT_RESULT event, with outcome "failed"
\* and the error payload (task_id, reason, retryable, details), and the task
\* is stored FAILED with outputs = {error: that payload}.  A FAILED task
\* stays FAILED, retryable or not: no step queues or claims it again.
FailureRecorded ==
    [][/\ \A w \in Workers :
            /\ \A retryable \in BOOLEAN :
                 HandleRaise(w, retryable, SerialInputs.ticks) =>
                     pc'[w] = "result_write"
            /\ (pc[w] \in {"result_write", "done_load", "done_trunc"}
                  /\ loc[w].result = None) => pc'[w] # "returned"
            /\ (loc[w].result = None /\ ExecuteOnceEnds(w)) =>
                 LET task == loc[w].task[1]
                     events == TaskEvents(journal', task)
                     i == FindTask(graph', task.id)
                     payload == events[Len(events)].payload
                 IN /\ UpdatesThenResult(events, loc[w].nupd)
                    /\ payload.outcome = "failed"
                    /\ DOMAIN payload.error
                         = {"task_id", "reason", "retryable", "details"}
                    /\ payload.error.task_id = task.id
                    /\ i # 0
                    /\ graph'[i].status = "FAILED"
                    /\ graph'[i].outputs = [error |-> payload.error]
                    /\ ret'[w].kind = "none"
                    /\ claimCount'[task.id] = 1
       /\ \A i \in 1..Len(graph) :
            graph[i].status = "FAILED" =>
                /\ i <= Len(graph')
                /\ graph'[i].id = graph[i].id
                /\ graph'[i].status = "FAILED"]_vars

\* A task is stored FAILED with a retryable error, and a worker that polled
\* after the failure got None.
RetryableFailureNotRetried ==
    /\ \E i \in 1..Len(graph) :
        /\ graph[i].status = "FAILED"
        /\ graph[i].outputs.error.retryable
    /\ \E w \in Workers :
        /\ pc[w] = "returned"
        /\ ret[w].kind = "none"
        /\ runs[w] = 0

\* C11: an AgentError raised at any step of execute_once after the claim
\* (on_assign, on_progress, handle_task, on_complete) is converted into a
\* recorded failure and never leaves execute_once: no execute_once call ends
\* by raising AgentError.
AgentErrorNeverLeavesExecuteOnce ==
    \A w \in Workers :
        ~(pc[w] = "returned" /\ ret[w].kind = "raised"
            /\ ret[w].val = "AgentError")

\* C12: when poll_next_task of runtime w returns a task, the stored task is
\* IN_PROGRESS with owner w and its previous attempt plus one, the returned
\* AgentTask carries the same values, and every other task of the registry
\* is as it was.
ClaimStoresOwnerAndAttempt ==
    [][\A w \in Workers :
         (pc[w] = "claim_write" /\ pc'[w] = "handle") =>
            LET task == loc'[w].task[1]
                i == FindTask(graph, task.id)
            IN /\ i # 0
               /\ Len(graph') = Len(graph)
               /\ graph'[i].id = task.id
               /\ graph'[i].status = "IN_PROGRESS"
               /\ graph'[i].owner = Some(w)
               /\ graph'[i].attempt = graph[i].attempt + 1
               /\ task.status = "IN_PROGRESS"
               /\ task.owner = Some(w)
               /\ task.attempt = graph'[i].attempt
               /\ \A j \in 1..Len(graph) : j # i => graph'[j] = graph[j]]_vars

\* A worker holds the task it claimed at attempt 1 while the registry holds
\* another task as well.
ClaimedBesideAnotherTask ==
    \E w \in Workers :
        /\ pc[w] = "handle"
        /\ loc[w].task # None
        /\ loc[w].task[1].attempt = 1
        /\ loc[w].task[1].owner = Some(w)
        /\ Len(graph) = 2

\* The registry holds a PENDING task of the type of runtime w.
HasPendingOfType(doc, w) ==
    \E i \in 1..Len(doc) :
        doc[i].status = "PENDING" /\ doc[i].type = agent_type[w]

\* C13: poll_next_task of a runtime of type T returns only a task of type T
\* that was stored PENDING; when the registry holds no PENDING task of type
\* T, execute_once returns None at once: the registry, the journals, the
\* summaries and last_heartbeat_at are unchanged and no hook or handler runs.
PollTakesOnlyPendingOfType ==
    [][\A w \in Workers :
         /\ (pc[w] = "claim_write" /\ pc'[w] = "handle") =>
              LET task == loc'[w].task[1]
                  i == FindTask(graph, task.id)
              IN /\ task.type = agent_type[w]
                 /\ i # 0
                 /\ graph[i].status = "PENDING"
                 /\ graph[i].type = agent_type[w]
         /\ (pc[w] = "idle" /\ pc'[w] # "idle" /\ ~graphTrunc) =>
              IF HasPendingOfType(graph, w)
              THEN pc'[w] = "claim_load"
              ELSE /\ pc'[w] = "returned"
                   /\ ret'[w] = Returned("none", None)
                   /\ loc'[w] = InitLoc
                   /\ shared' = shared
                   /\ last_heartbeat_at' = last_heartbeat_at]_vars

\* execute_once of a worker has returned None while the registry held a
\* PENDING task of another type only.
NoneBesidePendingOfOtherType ==
    \E w \in Workers :
        /\ pc[w] = "returned"
        /\ ret[w].kind = "none"
        /\ runs[w] = 0
        /\ graph # <<>>
        /\ \A i \in 1..Len(graph) :
             graph[i].status = "PENDING" /\ graph[i].type # agent_type[w]

\* C14: attempt is the claim count: the stored attempt of every task equals
\* the number of poll_next_task calls that have returned it, for any number
\* of concurrent claimants.
AttemptIsClaimCount ==
    \A i \in 1..Len(graph) :
        graph[i].attempt = IF graph[i].id \in DOMAIN claimCount
                           THEN claimCount[graph[i].id] ELSE 0

\* C18: a reader of the registry never meets a writer mid-mutation: no
\* load_graph reads the file while it is truncated and not yet rewritten,
\* so no call ends with the JSONDecodeError of an empty document.
ReaderNeverSeesTruncatedDocument ==
    \A p \in Procs :
        ~(pc[p] = "returned" /\ ret[p].kind = "raised"
            /\ ret[p].val = "JSONDecodeError")

----------------------------------------------------------------------------
(* Properties of the queries and of the controller *)

\* The last min(k, Len(seq)) elements of a sequence.
LastAtMost(seq, k) ==
    LET n == Len(seq)
        m == IF k < n THEN k ELSE n
    IN SubSeq(seq, n - m + 1, n)

\* C15: for every limit >= 0, tail(conversation_id, limit) returns exactly
\* the last min(limit, n) events of the conversation's journal in append
\* order, none when limit is 0 and the empty list when the conversation has
\* no journal; tail changes no journal.
TailReturnsLastEvents ==
    [][\A p \in Clients, conv \in Inputs.convs, limit \in Inputs.limits :
         TailCall(p, conv, limit) =>
            /\ ret'[p].val = LastAtMost(JournalOf(journal, conv), limit)
            /\ journal' = journal]_vars

\* C19: for every event list of length n and every max_events m >= 0,
\* build_context_slice renders exactly the last min(m, n) events, one line
\* per event; when n > m it summarizes the first n - m events, persists the
\* summary and appends one SUMMARY_REFRESH event; when n <= m it returns the
\* text and persists and appends nothing.
SliceKeepsLastEvents ==
    [][\A p \in Clients :
         /\ \A conv \in Inputs.convs, m \in Inputs.limits :
              BuildContextSlice(p, conv, m, Inputs.ops) =>
                 LET events == JournalOf(journal, conv)
                     n == Len(events)
                     text == IF pc'[p] = "returned" THEN ret'[p].val
                             ELSE loc'[p].result[1]
                 IN /\ text.lines = SliceText(LastAtMost(events, m), None).lines
                    /\ IF n > m
                       THEN /\ pc'[p] = "slice_persist"
                            /\ loc'[p].buf[1]
                                 = rolling_summary(conv, SubSeq(events, 1, n - m))
                       ELSE pc'[p] = "returned"
         /\ (pc[p] = "slice_write" /\ pc'[p] = "returned") =>
              \E c \in DOMAIN journal' :
                 /\ journal'[c] = Append(JournalOf(journal, c), loc[p].entry[1])
                 /\ loc[p].entry[1].type = "SUMMARY_REFRESH"
                 /\ \A d \in DOMAIN journal' \ {c} : journal'[d] = JournalOf(journal, d)]_vars

\* C20: decide returns speak_now = true exactly when some hint is one of
\* user_waiting, task_completed, agent_failed or one of the last 5 recent
\* events has type ERROR or AGENT_RESULT; older triggers and any number of
\* AGENT_UPDATE or USER_MESSAGE events do not make it true; decide appends
\* nothing to the log.
DecideGatesNarration ==
    [][\A p \in Clients :
         (pc[p] = "idle" /\ pc'[p] = "returned" /\ ret'[p].kind = "decision") =>
            LET hints == loc'[p].buf[1].hints
                events == loc'[p].buf[1].recent_events
                n == Len(events)
            IN /\ ret'[p].val.speak_now
                    = (\/ \E i \in 1..Len(hints) :
                            hints[i] \in {"user_waiting", "task_completed",
                                          "agent_failed"}
                       \/ \E i \in 1..n :
                            /\ i > n - 5
                            /\ events[i].type \in {"ERROR", "AGENT_RESULT"})
               /\ journal' = journal
               /\ summaries' = summaries]_vars

\* decide has returned speak_now = false for six recent events of which the
\* oldest is an ERROR, with a hint outside the speak hints, while the log
\* holds an event.
OldTriggerDoesNotSpeak ==
    \E p \in Clients :
        /\ pc[p] = "returned"
        /\ ret[p].kind = "decision"
        /\ ~ret[p].val.speak_now
        /\ loc[p].buf[1].hints = <<"idle">>
        /\ Len(loc[p].buf[1].recent_events) = 6
        /\ loc[p].buf[1].recent_events[1].type = "ERROR"
        /\ DOMAIN journal # {}

\* C16: an appended event is durable once append_event has returned: in
\* every later state, also after a crash and restart, the journal of its
\* conversation holds the event with the returned id exactly once.
AppendedEventsDurable ==
    \A a \in appended :
        LET lines == JournalOf(journal, a.conversation_id)
        IN Cardinality({i \in 1..Len(lines) : lines[i].id = a.id}) = 1

\* The machine has crashed after one append_event had returned, and another
\* append_event has returned since.
AppendedAcrossCrash ==
    /\ \E a \in appended : a.crashed
    /\ \E a \in appended : ~a.crashed

\* C17: a reader of the log never observes a partly written event, however
\* tail, since and by_type interleave with append_event: no reader fails to
\* parse a line, and every event a reader returns is a whole event of a
\* journal.
ReadersSeeWholeEvents ==
    \A p \in Clients :
        pc[p] = "returned" =>
            /\ ~(ret[p].kind = "raised" /\ ret[p].val = "JSONDecodeError")
            /\ ret[p].kind = "events" =>
                 \A i \in 1..Len(ret[p].val) :
                    \E c \in DOMAIN journal : \E k \in 1..Len(journal[c]) :
                        journal[c][k] = ret[p].val[i]

\* A reader has returned the events of a conversation and a writer now holds
\* the file of that conversation with a line partly written.
ReadBesideWriter ==
    \E p, q \in Clients :
        /\ pc[p] = "returned"
        /\ ret[p].kind = "events"
        /\ ret[p].val # <<>>
        /\ pc[q] = "append_write"
        /\ \E c \in DOMAIN journalLock :
             /\ journalLock[c] = q
             /\ ret[p].val[1].conversation_id = c

\* C21: build_narrator_prompt returns a narration text exactly when speak_now
\* is true, and then appends nothing; when speak_now is false it returns
\* None and appends exactly one NARRATION_SUPPRESSED event to the given
\* conversation, with the suppressed actions and the reason.
NarrationGated ==
    [][\A p \in Clients :
         /\ \A speak_now \in BOOLEAN, conv \in Inputs.convs :
              BuildNarratorPrompt(p, Actions, "", speak_now, conv, Inputs.ops,
                                  Inputs.ticks) =>
                 /\ journal' = journal
                 /\ IF speak_now
                    THEN /\ pc'[p] = "returned"
                         /\ ret'[p].kind = "prompt"
                    ELSE /\ pc'[p] = "narrate_write"
                         /\ loc'[p].entry[1].conversation_id = conv
         /\ (pc[p] = "narrate_write" /\ JournalLock(p)) => journal' = journal
         /\ (pc[p] = "narrate_write" /\ pc'[p] # pc[p]) =>
              LET entry == loc[p].entry[1]
                  c == entry.conversation_id
              IN /\ pc'[p] = "returned"
                 /\ ret'[p] = Returned("none", None)
                 /\ DOMAIN journal' = DOMAIN journal \cup {c}
                 /\ journal'[c] = Append(JournalOf(journal, c), entry)
                 /\ \A d \in DOMAIN journal \ {c} : journal'[d] = journal[d]
                 /\ entry.type = "NARRATION_SUPPRESSED"
                 /\ Get(entry.payload, "actions") = Some(Actions)
                 /\ Get(entry.payload, "reason") = Some("speak_now=false")]_vars

\* One build_narrator_prompt has returned None with its suppression event in
\* conv-2, and the other client holds a prompt.
SuppressedAndSpoken ==
    /\ \E p \in Clients : pc[p] = "returned" /\ ret[p].kind = "prompt"
    /\ \E p \in Clients : pc[p] = "returned" /\ ret[p].kind = "none"
    /\ "conv-2" \in DOMAIN journal
    /\ \E i \in 1..Len(journal["conv-2"]) :
         journal["conv-2"][i].type = "NARRATION_SUPPRESSED"

\* The events of all journals.
AllEvents(j) == UNION {{j[c][i] : i \in 1..Len(j[c])} : c \in DOMAIN j}

\* The events of a result are exactly those of a set, each once.
ExactlyEvents(result, events) ==
    /\ {result[i] : i \in 1..Len(result)} = events
    /\ Len(result) = Cardinality(events)

\* No event of a result follows one that is later in time.
AscendingInTime(result) ==
    \A i, k \in 1..Len(result) :
        i < k => ParseTimestamp(result[i].timestamp)
                    <= ParseTimestamp(result[k].timestamp)

\* C25: since(cutoff) returns exactly the events of all conversations whose
\* timestamp is >= cutoff, by_type(types, visibility) exactly those whose
\* type is in types and whose visibility is the given one when one is
\* given; both results ascend in time.
QueriesExactAndAscending ==
    [][\A p \in Clients :
         /\ \A t \in 0..MaxClock :
              SinceCall(p, NowIso(t)) =>
                 /\ ExactlyEvents(ret'[p].val,
                       {e \in AllEvents(journal) :
                          ParseTimestamp(e.timestamp) >= ParseTimestamp(NowIso(t))})
                 /\ AscendingInTime(ret'[p].val)
         /\ \A types \in Inputs.types, visibility \in Inputs.visibility :
              ByTypeCall(p, types, visibility) =>
                 /\ ExactlyEvents(ret'[p].val,
                       {e \in AllEvents(journal) :
                          /\ "type" \in DOMAIN e
                          /\ e.type \in types
                          /\ visibility # None =>
                                /\ "visibility" \in DOMAIN e
                                /\ e.visibility = visibility[1]})
                 /\ AscendingInTime(ret'[p].val)]_vars

----------------------------------------------------------------------------
(* Properties of the summaries *)

\* Process p is back from rolling_summary.
HasSummary(rets, pcs, p) == pcs[p] = "returned" /\ rets[p].kind = "summary"

\* C22: rolling_summary is a pure function of its event list: a call returns
\* the content and the summary_ref that any other call with the same
\* events returned, whatever the conversation, the log, the summaries
\* directory and the calls made before; the call changes no stored state.
SummaryPureInEvents ==
    [][\A p \in Clients :
         (pc[p] = "idle" /\ HasSummary(ret', pc', p)) =>
            /\ shared' = shared
            /\ \A q \in Clients \ {p} :
                 (HasSummary(ret, pc, q)
                    /\ loc[q].buf[1].events = loc'[p].buf[1].events) =>
                     /\ ret'[p].val.content = ret[q].val.content
                     /\ ret'[p].val.summary_ref = ret[q].val.summary_ref]_vars

\* Both clients hold the summary of the same three events, asked for two
\* conversations, and the log and the summaries directory are not empty.
SameEventsSummarizedTwice ==
    /\ \A p \in Clients : HasSummary(ret, pc, p)
    /\ loc["c1"].buf[1].events = loc["c2"].buf[1].events
    /\ Len(loc["c1"].buf[1].events) = 3
    /\ ret["c1"].val.conversation_id # ret["c2"].val.conversation_id
    /\ DOMAIN journal # {}
    /\ DOMAIN summaries # {}

\* The place of a type in the lexicographic order of the type names.
TypeRank(type) == CHOOSE k \in 1..Len(TypeOrder) : TypeOrder[k] = type

\* The headings of a content, and the type a heading names.
Headings(content) == {h \in 1..Len(content) : content[h].line = "heading"}
HeadingType(content, h) == content[h].item.text

\* C23: the content of rolling_summary has one group per event type of the
\* input, the groups in lexicographic order of the type name, and in each
\* group one line per event of the type, in the order of the input; every
\* input event is in exactly one line.
SummaryGroupedByType ==
    [][\A p \in Clients :
         (pc[p] = "idle" /\ HasSummary(ret', pc', p)) =>
            LET events == loc'[p].buf[1].events
                content == ret'[p].val.content
                types == {EventGroup(events[i]) : i \in 1..Len(events)}
            IN /\ {HeadingType(content, h) : h \in Headings(content)} = types
               /\ Cardinality(Headings(content)) = Cardinality(types)
               /\ \A h, g \in Headings(content) :
                    h < g => TypeRank(HeadingType(content, h))
                                < TypeRank(HeadingType(content, g))
               /\ \A h \in Headings(content) :
                    LET members == SelectSeq(events, LAMBDA e :
                                     EventGroup(e) = HeadingType(content, h))
                    IN /\ h + Len(members) <= Len(content)
                       /\ \A m \in 1..Len(members) :
                            content[h + m]
                              = [line |-> "item",
                                 item |-> StringifyEvent(members[m])]
               /\ Len(content) = Cardinality(types) + Len(events)]_vars

\* A client holds the summary of USER_MESSAGE, AGENT_UPDATE, USER_MESSAGE:
\* the AGENT_UPDATE group comes first and the two messages keep their order.
GroupsReordered ==
    \E p \in Clients :
        /\ HasSummary(ret, pc, p)
        /\ loc[p].buf[1].events
             = <<SummaryEvents.bye, SummaryEvents.working, SummaryEvents.hi>>
        /\ Len(ret[p].val.content) = 5
        /\ ret[p].val.content[1].item = Text("AGENT_UPDATE")
        /\ ret[p].val.content[4].item = Text("bye")

\* C24: after any sequence of persist_summary calls a conversation has at
\* most one artifact, with the summary_ref header and the content of the
\* most recent call for it, not merged with an older one; a call leaves
\* the artifacts of all other conversations unchanged.
SummarySuperseded ==
    [][\A p \in Clients, conv \in SummaryInputs.convs,
          summary \in SummaryInputs.dicts :
         PersistCall(p, conv, summary) =>
            /\ DOMAIN summaries' = DOMAIN summaries \cup {conv}
            /\ summaries'[conv] = [header |-> summary.summary_ref,
                                   body |-> summary.content]
            /\ \A d \in DOMAIN summaries \ {conv} :
                 summaries'[d] = summaries[d]]_vars

\* Both clients are back from persist_summary for conv-1 with different
\* summaries; the artifact is that of c2 and conv-2 has an artifact too.
LaterSummaryReplacedEarlier ==
    /\ \A p \in Clients : pc[p] = "returned" /\ ret[p].kind = "path"
    /\ loc["c1"].buf[1].conversation_id = "conv-1"
    /\ loc["c2"].buf[1].conversation_id = "conv-1"
    /\ loc["c1"].buf[1].summary.content # <<>>
    /\ loc["c2"].buf[1].summary.content # <<>>
    /\ loc["c1"].buf[1].summary # loc["c2"].buf[1].summary
    /\ summaries["conv-1"].header = loc["c2"].buf[1].summary.summary_ref
    /\ "conv-2" \in DOMAIN summaries

----------------------------------------------------------------------------
(* Properties of create_task and update_task, calls made one at a time *)

\* C26: update_task with a task_id that no task of the registry has raises
\* KeyError and leaves the registry as it was: no task is modified, none
\* is added, no updated_at changes.
UnknownIdRejected ==
    [][\A p \in Submitters, task_id \in StoreInputs.ids,
          patch \in StoreInputs.patches :
         (/\ UpdateCall(p, task_id, patch, StoreInputs.ticks)
          /\ \A i \in 1..Len(graph) : graph[i].id # task_id) =>
            /\ pc'[p] = "returned"
            /\ ret'[p] = Returned("raised", "KeyError")
            /\ graph' = graph
            /\ graphTrunc' = graphTrunc]_vars

\* The submitter is back from update_task with KeyError and the registry
\* holds two tasks.
KeyErrorBesideTasks ==
    /\ pc["s1"] = "returned"
    /\ ret["s1"] = Returned("raised", "KeyError")
    /\ Len(graph) = 2

\* C27: task ids are unique and immutable: after every operation no two
\* tasks of the registry have the same id, and every task that was in the
\* registry still has the id it had.
IdsUniqueAndImmutable ==
    [][/\ \A i, j \in 1..Len(graph') : i # j => graph'[i].id # graph'[j].id
       /\ \A i \in 1..Len(graph) :
            i <= Len(graph') /\ graph'[i].id = graph[i].id]_vars

\* A created_at or updated_at string as a point in time.
Instant(iso) == ParseTimestamp(iso)

\* The place of an id in Python's string order.
IdRank(id) == IF id = OwnId THEN 0 ELSE CHOOSE n \in 1..MaxTasks : TaskId(n) = id

\* Task a comes before task b in the order earliest created_at, then id.
CreatedBefore(a, b) ==
    \/ Instant(a.created_at) < Instant(b.created_at)
    \/ /\ Instant(a.created_at) = Instant(b.created_at)
       /\ IdRank(a.id) <= IdRank(b.id)

\* C28: among the PENDING tasks of the runtime's agent_type, poll_next_task
\* claims the one with the earliest created_at, ties broken by id,
\* whatever the priorities and the order in which the tasks are stored.
EarliestCreatedClaimed ==
    [][\A w \in Workers :
         ClaimWrite(w) =>
            \A i \in 1..Len(graph) :
                (graph[i].status = "PENDING" /\ graph[i].type = agent_type[w])
                    => CreatedBefore(loc[w].target[1], graph[i])]_vars

\* C29: for every draft passed to create_task the new task has created_at
\* equal to updated_at, the status of the draft and, when the draft has no
\* id, an id that no task of the registry has; the task is appended at the
\* end of the registry and the earlier tasks are unchanged.
CreatedStampedAndAppended ==
    [][\A p \in Submitters :
         /\ \A draft \in StoreInputs.drafts :
              (CreateLoad(p, draft, StoreInputs.ticks)
                 /\ pc'[p] = "create_trunc") =>
                 LET node == loc'[p].target[1]
                 IN /\ node.created_at = node.updated_at
                    /\ node.status = draft.status
                    /\ "id" \notin DOMAIN draft =>
                         \A i \in 1..Len(graph) : graph[i].id # node.id
         /\ CreateWrite(p) =>
              /\ ret'[p].val = loc[p].target[1]
              /\ graph' = Append(graph, ret'[p].val)]_vars

\* C30: every successful update_task leaves the task with an updated_at
\* strictly later than the one it had, and no task of the registry has an
\* updated_at earlier than its created_at.
UpdatedAtAdvances ==
    [][/\ \A p \in Submitters :
            UpdateWrite(p) =>
               \A i \in 1..Len(graph) :
                   graph' = [graph EXCEPT ![i] = ret'[p].val] =>
                       Instant(graph'[i].updated_at) > Instant(graph[i].updated_at)
       /\ \A i \in 1..Len(graph') :
            Instant(graph'[i].updated_at) >= Instant(graph'[i].created_at)]_vars

----------------------------------------------------------------------------
(* Properties of append_event's argument check *)

\* C31: append_event with a missing or empty conversation_id raises
\* ValueError and appends nothing: no journal is created, no journal is
\* changed, and the call is over.
NoConversationRejected ==
    [][\A p \in Clients, event \in Inputs.events :
         (/\ AppendStamp(p, event, Inputs.ops, Inputs.ticks)
          /\ Get(event, "conversation_id") \in {None, Some("")}) =>
            /\ pc'[p] = "returned"
            /\ ret'[p] = Returned("raised", "ValueError")
            /\ journal' = journal
            /\ disk' = disk
            /\ journalLock' = journalLock]_vars

\* Both clients are back from append_event with ValueError and the log has
\* the journal of conv-1 and no other.
ValueErrorBesideJournal ==
    /\ \A p \in Clients :
         pc[p] = "returned" /\ ret[p] = Returned("raised", "ValueError")
    /\ DOMAIN journal = {"conv-1"}
    /\ journal["conv-1"] # <<>>

----------------------------------------------------------------------------
(* Properties of heartbeat_due *)

\* C32: heartbeat_due(last_ts, now) with now given is true exactly when
\* last_ts is None or now - last_ts >= heartbeat_interval, also for now = 0
\* and for last_ts = 0: false at now = last_ts, true at now - last_ts equal
\* to the interval.
HeartbeatDueIffIntervalPassed ==
    [][\A w \in Workers, last_ts \in BeatTimes, now \in BeatTimes \ {None} :
         HeartbeatDueCall(w, last_ts, now) =>
            ret'[w].val
              = (last_ts = None
                   \/ now[1] - last_ts[1] >= heartbeat_interval[w])]_vars

----------------------------------------------------------------------------
(* Properties of the runtime's events *)

\* The conversation of a task by the stated precedence; a conversation_id
\* is present when it is set to a string that is not empty.
ScopeOf(task) ==
    LET md == Get(task.metadata, "conversation_id")
        inp == Get(task.inputs, "conversation_id")
    IN IF md \notin {None, Some("")} THEN md[1]
       ELSE IF inp \notin {None, Some("")} THEN inp[1]
       ELSE task.id

\* C33: every AGENT_UPDATE and AGENT_RESULT event the runtime appends for a
\* task goes to the journal of one conversation: the conversation_id of the
\* task's metadata when present, else that of its inputs when present,
\* else the task's id; no other journal changes.
RuntimeEventsInTaskScope ==
    [][\A w \in Workers :
         (EmitWrite(w, RouteInputs.ticks) \/ ResultWrite(w)) =>
            LET c == ScopeOf(loc[w].task[1])
                entry == loc[w].entry[1]
            IN /\ entry.type \in {"AGENT_UPDATE", "AGENT_RESULT"}
               /\ Get(entry.payload, "task_id") = Some(loc[w].task[1].id)
               /\ DOMAIN journal' = DOMAIN journal \cup {c}
               /\ journal'[c] = Append(JournalOf(journal, c), entry)
               /\ \A d \in DOMAIN journal \ {c} : journal'[d] = journal[d]]_vars

\* The first task names conv-1 in its metadata and conv-2 in its inputs and
\* its update and its result are in the journal of conv-1; the second
\* names conv-2 in its inputs only and its events are in that journal.
EventsRoutedByPrecedence ==
    /\ Len(graph) = 2
    /\ Get(graph[1].metadata, "conversation_id") = Some("conv-1")
    /\ Get(graph[1].inputs, "conversation_id") = Some("conv-2")
    /\ Get(graph[2].metadata, "conversation_id") = Some("")
    /\ Get(graph[2].inputs, "conversation_id") = Some("conv-2")
    /\ DOMAIN journal = {"conv-1", "conv-2"}
    /\ Len(journal["conv-1"]) = 2
    /\ Len(journal["conv-2"]) = 2
    /\ \A i \in 1..2 : journal["conv-1"][i].payload.task_id = graph[1].id
    /\ \A i \in 1..2 : journal["conv-2"][i].payload.task_id = graph[2].id

\* The AGENT_RESULT events of the journals that carry this task id.
ResultsOf(j, task_id) ==
    UNION {{j[c][i] : i \in {k \in 1..Len(j[c]) :
                               /\ j[c][k].type = "AGENT_RESULT"
                               /\ Get(j[c][k].payload, "task_id") = Some(task_id)}} :
           c \in DOMAIN j}

\* The task is stored IN_PROGRESS with worker w as its owner.
HeldBy(doc, task_id, w) ==
    \E i \in 1..Len(doc) :
        /\ doc[i].id = task_id
        /\ doc[i].status = "IN_PROGRESS"
        /\ doc[i].owner = Some(w)

\* C38: a PolicyViolation raised by emit_update inside handle_task is not
\* converted into an outcome of the task: it leaves execute_once, which
\* ends there without fail_task; no AGENT_RESULT event is appended for the
\* task and the task stays stored IN_PROGRESS with its owner.
PolicyViolationLeavesTaskHeld ==
    [][\A w \in Workers :
         /\ \A extra \in Extras :
              (/\ Get(extra, "render_to_user") = Some(TRUE)
               /\ EmitUpdate(w, extra, SerialInputs.ticks)) =>
                 /\ pc'[w] = "returned"
                 /\ ret'[w] = Returned("raised", "PolicyViolation")
                 /\ HeldBy(graph', loc[w].task[1].id, w)
                 /\ ResultsOf(journal', loc[w].task[1].id) = {}
         /\ (pc[w] = "returned" /\ ret[w] = Returned("raised", "PolicyViolation")) =>
                 \E i \in 1..Len(graph') :
                    /\ HeldBy(graph', graph'[i].id, w)
                    /\ ResultsOf(journal', graph'[i].id) = {}]_vars

\* Worker w1 has completed the first task, its result is in the journal,
\* and w2 is back with PolicyViolation: the second task is held by w2.
ViolationAfterCompletedTask ==
    /\ Len(graph) = 2
    /\ graph[1].status = "COMPLETED"
    /\ ResultsOf(journal, graph[1].id) # {}
    /\ pc["w2"] = "returned"
    /\ ret["w2"] = Returned("raised", "PolicyViolation")
    /\ HeldBy(graph, graph[2].id, "w2")

\* The calls of execute_once for a claim that succeeds and for one that
\* fails.
SuccessOrder == <<"poll_next_task", "on_assign", "on_progress", "handle_task",
                  "on_complete", "complete_task">>
FailureOrder == <<"poll_next_task", "on_assign", "on_progress", "handle_task",
                  "on_error", "fail_task">>
IsPrefix(a, b) == Len(a) <= Len(b) /\ a = SubSeq(b, 1, Len(a))

\* C37: for every claimed task execute_once makes its calls in this order,
\* each at most once: the claim is stored, then on_assign, on_progress and
\* handle_task; on success on_complete and complete_task, on AgentError
\* on_error and fail_task; never on_complete and on_error both, never
\* complete_task and fail_task both.  The status that is stored at the end
\* is the one of the call that was made.
CallsInOrder ==
    [][\A w \in Workers :
         /\ IsPrefix(loc'[w].calls, SuccessOrder)
              \/ IsPrefix(loc'[w].calls, FailureOrder)
         /\ ClaimWrite(w) =>
              /\ loc[w].calls = <<"poll_next_task">>
              /\ HeldBy(graph', loc'[w].task[1].id, w)
         /\ DoneWrite(w) =>
              /\ loc[w].calls \in {SuccessOrder, FailureOrder}
              /\ LET i == CHOOSE i \in 1..Len(graph') :
                              graph'[i].id = loc[w].task[1].id
                 IN graph'[i].status
                      = IF loc[w].calls = SuccessOrder THEN "COMPLETED"
                        ELSE "FAILED"]_vars

\* The first task is stored COMPLETED by w1 and w2 is about to store the
\* status of the second, a claim that ended with fail_task.
BothOrdersTaken ==
    /\ Len(graph) = 2
    /\ graph[1].status = "COMPLETED" /\ graph[1].owner = Some("w1")
    /\ pc["w2"] = "done_write"
    /\ loc["w2"].calls = FailureOrder
    /\ loc["w2"].task[1].id = graph[2].id

----------------------------------------------------------------------------
(* Properties of the summary artifact and the log *)

\* The SUMMARY_REFRESH events of a conversation's journal, in its order.
Refreshes(j, c) ==
    SelectSeq(JournalOf(j, c), LAMBDA e : e.type = "SUMMARY_REFRESH")

\* C40: whenever no build_context_slice call is in progress, for every
\* conversation with a summary artifact the summary_ref of the artifact's
\* header is the summary_ref of the last SUMMARY_REFRESH event of the
\* conversation's journal, also when calls on one conversation interleave.
SummaryAgreesWithLog ==
    (\A p \in Clients : pc[p] \notin {"slice_persist", "slice_write"}) =>
        \A c \in DOMAIN summaries :
            LET refs == Refreshes(journal, c)
            IN /\ refs # <<>>
               /\ refs[Len(refs)].payload.summary_ref = summaries[c].header

----------------------------------------------------------------------------
(* Properties of the runtime on a machine that may crash *)

\* The journal of the task's conversation has an AGENT_RESULT event with
\* the task's id whose outcome is "failed", or is not "failed".
HasResult(j, node, failed) ==
    \E e \in ResultsOf(j, node.id) :
        /\ e.conversation_id = conversation_id(node)
        /\ (Get(e.payload, "outcome") = Some("failed")) = failed

\* C39: the result event is recorded before the status: in every state,
\* also the one a crash leaves between the two steps of complete_task or
\* fail_task, a task that the runtime has stored as COMPLETED or FAILED
\* has an AGENT_RESULT event with its id in the journal of its
\* conversation, with outcome "failed" exactly when the status is FAILED.
ResultRecordedBeforeStatus ==
    \A i \in 1..Len(graph) :
        graph[i].status \in {"COMPLETED", "FAILED"} =>
            HasResult(journal, graph[i], graph[i].status = "FAILED")

\* After a crash every process is idle; the first task is stored FAILED
\* and the second is still IN_PROGRESS although its result event, written
\* before the crash, is in the journal.
CrashBetweenEventAndStatus ==
    /\ \A p \in Procs : pc[p] = "idle"
    /\ Len(graph) = 2
    /\ graph[1].status = "FAILED"
    /\ graph[2].status = "IN_PROGRESS"
    /\ \E e \in ResultsOf(journal, graph[2].id) :
         [id |-> e.id, conversation_id |-> e.conversation_id,
          crashed |-> TRUE] \in appended

----------------------------------------------------------------------------
(* Properties of claimed tasks under concurrent callers *)

\* The stored status of the task with this id.
StoredStatus(doc, task_id) ==
    {doc[i].status : i \in {k \in 1..Len(doc) : doc[k].id = task_id}}

\* C35: there is no reclamation: while a worker that has claimed a task
\* stays inside handle_task, the task stays stored IN_PROGRESS with that
\* worker as owner, and poll_next_task never returns a task whose stored
\* status is IN_PROGRESS, COMPLETED or FAILED.
ClaimHeldUntilReported ==
    [][\A w \in Workers :
         /\ (/\ pc[w] = "handle" /\ pc'[w] = "handle"
             /\ HeldBy(graph, loc[w].task[1].id, w)) =>
               HeldBy(graph', loc[w].task[1].id, w)
         /\ ClaimWrite(w) =>
               StoredStatus(graph, loc[w].target[1].id) = {"PENDING"}]_vars

\* Worker w is inside handle_task for the task with this id.
Handling(w, task_id) == pc[w] = "handle" /\ loc[w].task[1].id = task_id

\* C34: under fairness, with a handle_task that returns a result or raises
\* AgentError, every task a worker has claimed eventually has the stored
\* status COMPLETED or FAILED, and the worker is idle again, for
\* concurrently running workers. A task that is stored PENDING again when
\* every worker is idle and has made its MaxRuns claims is not counted:
\* a worker that went on polling would claim it once more.
ClaimedTaskEventuallyReported ==
    \A w \in Workers : \A task_id \in TaskIds :
        /\ Handling(w, task_id) ~>
             (\/ StoredStatus(graph, task_id) \cap {"COMPLETED", "FAILED"} # {}
              \/ /\ StoredStatus(graph, task_id) = {"PENDING"}
                 /\ \A v \in Workers : pc[v] = "idle" /\ runs[v] >= MaxRuns)
        /\ Handling(w, task_id) ~> (pc[w] = "idle")

\* C36: no PENDING task starves: while workers of its type keep calling
\* execute_once and every handle_task ends, a task that create_task has
\* returned with status PENDING is eventually claimed (or every worker has
\* made its MaxRuns claims), also when other processes create tasks and
\* other workers claim and report concurrently.
PendingEventuallyClaimed ==
    \A task_id \in TaskIds :
        (/\ pc["s1"] = "returned" /\ ret["s1"].kind = "node"
         /\ ret["s1"].val.id = task_id /\ ret["s1"].val.status = "PENDING") ~>
            (\/ task_id \in DOMAIN claimCount
             \/ \A w \in Workers : runs[w] >= MaxRuns)

====
